---- MODULE Spec2Model ----
(***************************************************************************)
(* Model of the ILP cutting-stock engine of optimizador_ilp_v2.py          *)
(* (class OptimizadorILP and the wrapper optimizar_ilp).                   *)
(*                                                                         *)
(* Units.  Widths are millimetres, thicknesses millimetres, linear metres  *)
(* (ml) metres, all integers.  The code's weight formula                   *)
(*     kg = ml * 2.73 * espesor * (ancho / 1000)                           *)
(* is kept exact by counting weights in units of 1e-5 kg:                  *)
(*     Peso(ml, espesor, ancho) = ml * 273 * espesor * ancho.              *)
(* Input weights (KG columns, kg_max_bobina, kg_min_bobina) are whole kg   *)
(* and are converted with KgU.  margen_cobertura and margen_exceso are     *)
(* percentages (95 = 0.95), factor_penalizacion_desperdicio is in          *)
(* thousandths (100 = 0.1).  The solver's continuous variable ml takes the *)
(* integer values 0..MaxML.                                                *)
(***************************************************************************)
EXTENDS Integers, Sequences, FiniteSets, TLC

VARIABLES
    pc,                  \* position inside optimizar
    cfg,                 \* the constructor's parameters (self.*)
    df_desarrollos,      \* input table of stock rolls
    df_pedidos,          \* input table of orders
    desarrollos,         \* self.desarrollos
    pedidos,             \* self.pedidos
    bobinas_candidatas,  \* the local list of optimizar
    problema,            \* self.problema: the constraints added, by name
    estado,              \* status returned by problema.solve
    valores,             \* values of variables_y / variables_ml after the solve
    solucion,            \* self.solucion
    resultado,           \* the list optimizar returns
    combinaciones,       \* buscar_parametros_optimos: the list of combinations
    idx,                 \* how many combinations the loop has taken
    resultados,          \* OptimizadorParametros.resultados
    mejor_resultado,     \* the best trial so far (<<>> for None)
    mejor_puntuacion,    \* its score
    retorno,             \* what buscar_parametros_optimos returns (<<>> for None)
    combinaciones_por_desarrollo, \* OptimizadorBobinas: the cache of combinations
    intento_actual,      \* optimizar_con_progreso: attempts started
    estrategia,          \* strategy of the current attempt
    mejor_solucion,      \* optimizar_con_progreso: best list of rolls (<<>> for None)
    mejor_puntuacion_bobinas, \* and its score (mejor_puntuacion of that method)
    pedidos_estado,      \* _generar_solucion_inicial: order id -> kg_pendientes
    desarrollos_disponibles, \* its working copy of self.desarrollos
    intento,             \* its loop counter
    indice_desarrollo,   \* its round-robin index
    bobinas_intento,     \* its list bobinas: the rolls accepted in the current attempt
    desarrollo_actual,   \* position of the loop's stock roll in desarrollos_disponibles
    pedidos_compatibles  \* the loop's list of compatible orders

varsBusqueda ==
    <<combinaciones, idx, resultados, mejor_resultado, mejor_puntuacion, retorno>>

varsBobinas ==
    <<combinaciones_por_desarrollo, intento_actual, estrategia, mejor_solucion,
      mejor_puntuacion_bobinas, pedidos_estado, desarrollos_disponibles, intento,
      indice_desarrollo, bobinas_intento, desarrollo_actual, pedidos_compatibles>>

vars == <<pc, cfg, df_desarrollos, df_pedidos, desarrollos, pedidos,
          bobinas_candidatas, problema, estado, valores, solucion, resultado,
          varsBusqueda, varsBobinas>>

----------------------------------------------------------------------------
(* Bounds of the model *)

MaxML == 10
MaxDesarrollos == 2
MaxPedidos == 2
MaxCandidatas == 4
MaxPedidosGen == 6

(* Program constants *)

M == 20000
UMBRAL_ML == 1
COBERTURA_INFORME == 95

None == "None"
NaN == -1

Min(a, b) == IF a < b THEN a ELSE b

RECURSIVE SumaSeq(_)
SumaSeq(s) == IF s = <<>> THEN 0 ELSE Head(s) + SumaSeq(Tail(s))

RECURSIVE Aplanar(_)
Aplanar(ss) == IF ss = <<>> THEN <<>> ELSE Head(ss) \o Aplanar(Tail(ss))

(* lexicographic order on integer tuples of equal length *)
LexMenor(a, b) ==
    \E i \in 1..Len(a) :
        /\ a[i] < b[i]
        /\ \A j \in 1..(i - 1) : a[j] = b[j]

RECURSIVE OrdenarLex(_)
OrdenarLex(S) ==
    IF S = {} THEN <<>>
    ELSE LET m == CHOOSE x \in S : \A y \in S \ {x} : LexMenor(x, y)
         IN  <<m>> \o OrdenarLex(S \ {m})

----------------------------------------------------------------------------
(* Weights *)

KgU(kg) == kg * 100000

Peso(ml, espesor, ancho) == ml * 273 * espesor * ancho

----------------------------------------------------------------------------
(* _cargar_datos *)

CargarDesarrollos(df) ==
    [i \in 1..Len(df) |->
        [id             |-> i - 1,
         ancho          |-> df[i].ANCHO,
         espesor        |-> df[i].ESPESOR,
         aleacion       |-> df[i].ALEACION,
         estado         |-> df[i].ESTADO,
         kg_disponibles |-> df[i].KG]]

CargarPedidos(df) ==
    [i \in 1..Len(df) |->
        [id             |-> df[i].PEDIDO,
         ancho          |-> df[i].ANCHO,
         kg_solicitados |-> df[i].KG,
         aleacion       |-> df[i].ALEACION,
         estado         |-> df[i].ESTADO,
         espesor        |-> df[i].ESPESOR,
         ml_minimos     |-> IF df[i].ML_MINIMOS # NaN THEN df[i].ML_MINIMOS ELSE 0]]

----------------------------------------------------------------------------
(* _generar_configuraciones_corte *)

(* range(1, min(tope, max_cortes_por_pedido + 1)) is 1..Limite(c, tope) *)
Limite(c, tope) == Min(tope - 1, c.max_cortes_por_pedido)

(* the nested enumerate loops: the strictly increasing k-tuples of positions
   lo..n, in the order the loops visit them *)
RECURSIVE Combinaciones(_, _, _)
Combinaciones(k, lo, n) ==
    IF k = 0 THEN << <<>> >>
    ELSE IF lo > n THEN <<>>
    ELSE LET con == Combinaciones(k - 1, lo + 1, n)
         IN  [j \in 1..Len(con) |-> <<lo>> \o con[j]] \o Combinaciones(k, lo + 1, n)

(* a dict literal {id_1: n_1, ..., id_k: n_k}: a later key overwrites an
   earlier equal key *)
Diccionario(ids, ns) ==
    [clave \in {ids[j] : j \in 1..Len(ids)} |->
        ns[CHOOSE j \in 1..Len(ids) :
              /\ ids[j] = clave
              /\ \A l \in (j + 1)..Len(ids) : ids[l] # clave]]

AnchoUsado(peds, comb, ns) ==
    SumaSeq([j \in 1..Len(comb) |-> ns[j] * peds[comb[j]].ancho])

Configuracion(peds, comb, ns) ==
    [cortes      |-> Diccionario([j \in 1..Len(comb) |-> peds[comb[j]].id], ns),
     ancho_usado |-> AnchoUsado(peds, comb, ns)]

(* variant: the upper end of the waste window is not tested *)
DesperdicioAceptado_SinMaximo(c, desperdicio) ==
    c.desperdicio_bordes_minimo <= desperdicio

DesperdicioAceptado(c, desperdicio) ==
    /\ c.desperdicio_bordes_minimo <= desperdicio
    /\ desperdicio <= c.desperdicio_bordes_maximo

(* block "Configuraciones con 1 pedido" *)
Configuraciones1(c, desarrollo, peds) ==
    Aplanar([i \in 1..Len(peds) |->
        LET max_cortes == desarrollo.ancho \div peds[i].ancho
            aceptados  == {<<n>> : n \in
                             {x \in 1..Min(max_cortes, c.max_cortes_por_pedido) :
                                DesperdicioAceptado(c, desarrollo.ancho - x * peds[i].ancho)}}
            orden      == OrdenarLex(aceptados)
        IN  [j \in 1..Len(orden) |-> Configuracion(peds, <<i>>, orden[j])]])

(* the count loops of a block: n1 in 1..lim1, the other counts in 1..limR *)
RECURSIVE Conteos(_, _, _)
Conteos(k, lim1, limR) ==
    IF k = 1 THEN {<<n>> : n \in 1..lim1}
    ELSE {Append(ns, n) : ns \in Conteos(k - 1, lim1, limR), n \in 1..limR}

(* the blocks for k >= 2 pedidos *)
ConfiguracionesK(c, desarrollo, peds, k, lim1, limR) ==
    LET combs   == Combinaciones(k, 1, Len(peds))
        conteos == Conteos(k, lim1, limR)
    IN  Aplanar([i \in 1..Len(combs) |->
            LET aceptados ==
                    {ns \in conteos :
                        LET ancho_usado == AnchoUsado(peds, combs[i], ns)
                        IN  /\ ancho_usado <= desarrollo.ancho
                            /\ DesperdicioAceptado(c, desarrollo.ancho - ancho_usado)}
                orden == OrdenarLex(aceptados)
            IN  [j \in 1..Len(orden) |-> Configuracion(peds, combs[i], orden[j])]])

Configuraciones2(c, desarrollo, peds) ==
    ConfiguracionesK(c, desarrollo, peds, 2,
                     c.max_cortes_por_pedido, c.max_cortes_por_pedido)

Configuraciones3(c, desarrollo, peds) ==
    ConfiguracionesK(c, desarrollo, peds, 3, Limite(c, 8), Limite(c, 6))

Configuraciones4(c, desarrollo, peds) ==
    IF c.max_pedidos_por_configuracion >= 4
    THEN ConfiguracionesK(c, desarrollo, peds, 4, Limite(c, 5), Limite(c, 4))
    ELSE <<>>

Configuraciones5(c, desarrollo, peds) ==
    IF c.max_pedidos_por_configuracion >= 5
    THEN ConfiguracionesK(c, desarrollo, peds, 5, Limite(c, 4), Limite(c, 3))
    ELSE <<>>

Configuraciones6(c, desarrollo, peds) ==
    ConfiguracionesK(c, desarrollo, peds, 6, Limite(c, 3), Limite(c, 2))

GenerarConfiguracionesCorte(c, desarrollo, peds) ==
    Configuraciones1(c, desarrollo, peds)
        \o Configuraciones2(c, desarrollo, peds)
        \o Configuraciones3(c, desarrollo, peds)
        \o Configuraciones4(c, desarrollo, peds)
        \o Configuraciones5(c, desarrollo, peds)
        \o Configuraciones6(c, desarrollo, peds)

----------------------------------------------------------------------------
(* _generar_bobinas_candidatas *)

(* variant: the alloy is not compared *)
Compatible_SinAleacion(p, desarrollo) ==
    /\ p.espesor = desarrollo.espesor
    /\ p.estado = desarrollo.estado
    /\ p.ancho <= desarrollo.ancho

Compatible(p, desarrollo) ==
    /\ p.espesor = desarrollo.espesor
    /\ p.aleacion = desarrollo.aleacion
    /\ p.estado = desarrollo.estado
    /\ p.ancho <= desarrollo.ancho

PedidosCompatibles(desarrollo, peds) ==
    SelectSeq(peds, LAMBDA p : Compatible(p, desarrollo))

GenerarBobinasCandidatas(c, des, peds) ==
    LET porDesarrollo ==
            [i \in 1..Len(des) |->
                LET compatibles == PedidosCompatibles(des[i], peds)
                    configs     == IF compatibles = <<>> THEN <<>>
                                   ELSE GenerarConfiguracionesCorte(c, des[i], compatibles)
                IN  [j \in 1..Len(configs) |->
                        [desarrollo    |-> des[i],
                         configuracion |-> configs[j],
                         ancho_usado   |-> configs[j].ancho_usado,
                         desperdicio   |-> des[i].ancho - configs[j].ancho_usado]]]
        todas == Aplanar(porDesarrollo)
    IN  [n \in 1..Len(todas) |->
            [id            |-> n,
             desarrollo    |-> todas[n].desarrollo,
             configuracion |-> todas[n].configuracion,
             ancho_usado   |-> todas[n].ancho_usado,
             desperdicio   |-> todas[n].desperdicio]]

----------------------------------------------------------------------------
(* _calcular_kg_asignado, _calcular_kg_bobina *)

CalcularKgAsignado(bobina, pedido, ml) ==
    IF pedido.id \notin DOMAIN bobina.configuracion.cortes THEN 0
    ELSE LET num_cortes  == bobina.configuracion.cortes[pedido.id]
             ancho_corte == num_cortes * pedido.ancho
         IN  Peso(ml, bobina.desarrollo.espesor, ancho_corte)

CalcularKgBobina(bobina, ml) ==
    Peso(ml, bobina.desarrollo.espesor, bobina.desarrollo.ancho)

----------------------------------------------------------------------------
(* _crear_modelo_ilp: the objective and the constraint families.  An
   assignment a is a sequence, one entry [y, ml] per candidate; the binaries
   z (deja_resto_<desarrollo>) and z_b (deja_resto_bobina_<candidate>) are
   existentially quantified where their constraints are stated. *)

(* objective times 1000 *)
Objetivo(c, cands, a) ==
    SumaSeq([i \in 1..Len(cands) |-> 1000 * a[i].y])
    + (IF c.factor_penalizacion_desperdicio > 0
       THEN SumaSeq([i \in 1..Len(cands) |->
                c.factor_penalizacion_desperdicio * cands[i].desperdicio * a[i].y])
       ELSE 0)

KgAsignados(cands, pedido, a) ==
    SumaSeq([i \in 1..Len(cands) |->
        IF pedido.id \in DOMAIN cands[i].configuracion.cortes
        THEN CalcularKgAsignado(cands[i], pedido, a[i].ml)
        ELSE 0])

(* kg_solicitados * margen, margen a percentage, in weight units *)
KgMargen(pedido, margen) == pedido.kg_solicitados * margen * 1000

Cobertura_Min(c, cands, pedido, a) ==
    KgAsignados(cands, pedido, a) >= KgMargen(pedido, c.margen_cobertura)

Exceso_Max(c, cands, pedido, a) ==
    KgAsignados(cands, pedido, a) <= KgMargen(pedido, c.margen_exceso)

Peso_Max(c, cand, v) ==
    CalcularKgBobina(cand, v.ml) <= KgU(c.kg_max_bobina)

(* variant: the big-M bound is not tied to y *)
Activacion_SinVinculo(cand, v) == v.ml <= M

Activacion(cand, v) == v.ml <= M * v.y

Peso_Min(c, cand, v) ==
    CalcularKgBobina(cand, v.ml) >= KgU(c.kg_min_bobina) * v.y

BobinasDeEsteDesarrollo(cands, desarrollo) ==
    {i \in 1..Len(cands) : cands[i].desarrollo.id = desarrollo.id}

(* variant: every roll is held against kg_disponibles on its own *)
Material_Disp_PorBobina(cands, desarrollo, a) ==
    \A i \in BobinasDeEsteDesarrollo(cands, desarrollo) :
        CalcularKgBobina(cands[i], a[i].ml) <= KgU(desarrollo.kg_disponibles)

Material_Disp(cands, desarrollo, a) ==
    BobinasDeEsteDesarrollo(cands, desarrollo) # {} =>
        SumaSeq([i \in 1..Len(cands) |->
            IF i \in BobinasDeEsteDesarrollo(cands, desarrollo)
            THEN CalcularKgBobina(cands[i], a[i].ml) ELSE 0])
          <= KgU(desarrollo.kg_disponibles)

(* variant: the tolerance is applied on both sides of ml_minimos *)
ML_Min_DosLados(c, peds, cand, v) ==
    \A k \in 1..Len(peds) :
        (peds[k].ml_minimos > 0 /\ peds[k].id \in DOMAIN cand.configuracion.cortes)
            => /\ v.ml * 100 >= peds[k].ml_minimos * (100 - c.margen_tolerancia_ml_pct) * v.y
               /\ v.ml * 100 <= peds[k].ml_minimos * (100 + c.margen_tolerancia_ml_pct)

(* ml >= ml_minimos * (1 - tolerancia/100) * y, for every order of the
   candidate that has ml_minimos > 0 *)
ML_Min(c, peds, cand, v) ==
    \A k \in 1..Len(peds) :
        (peds[k].ml_minimos > 0 /\ peds[k].id \in DOMAIN cand.configuracion.cortes)
            => v.ml * 100 >= peds[k].ml_minimos * (100 - c.margen_tolerancia_ml_pct) * v.y

(* ml_disponibles = kg_disponibles / (2.73 * espesor * (ancho / 1000)) is the
   fraction MlNum / MlDen *)
MlNum(desarrollo) == KgU(desarrollo.kg_disponibles)
MlDen(desarrollo) == 273 * desarrollo.espesor * desarrollo.ancho

(* x <= ml_disponibles - resto  and  x >= ml_disponibles - grande, x integer *)
BajoDisponible(desarrollo, x, resto) == (x + resto) * MlDen(desarrollo) <= MlNum(desarrollo)
SobreDisponible(desarrollo, x, grande) ==
    x + grande >= (MlNum(desarrollo) + MlDen(desarrollo) - 1) \div MlDen(desarrollo)

MlUsados(cands, desarrollo, a) ==
    SumaSeq([i \in 1..Len(cands) |->
        IF i \in BobinasDeEsteDesarrollo(cands, desarrollo) THEN a[i].ml ELSE 0])

RestoPorDesarrollo(c, cands, desarrollo, a) ==
    (c.ml_minimo_resto > 0 /\ BobinasDeEsteDesarrollo(cands, desarrollo) # {}) =>
        LET ml_usados == MlUsados(cands, desarrollo, a)
        IN  /\ BajoDisponible(desarrollo, ml_usados, 0)                   \* ML_Max
            /\ \E z \in {0, 1} :
                /\ BajoDisponible(desarrollo, ml_usados,
                                  c.ml_minimo_resto * z)                  \* ML_Resto_Min
                /\ SobreDisponible(desarrollo, ml_usados, M * z)          \* ML_Usar_Todo

(* variant: ML_Usar_Todo_Bobina is missing, z_b = 0 forces nothing *)
RestoPorBobina_SinUsarTodo(c, cand, v) ==
    c.ml_minimo_resto > 0 =>
        \E z_b \in {0, 1} :
            BajoDisponible(cand.desarrollo, v.ml, c.ml_minimo_resto * z_b)

RestoPorBobina(c, cand, v) ==
    c.ml_minimo_resto > 0 =>
        \E z_b \in {0, 1} :
            /\ BajoDisponible(cand.desarrollo, v.ml,
                              c.ml_minimo_resto * z_b)           \* ML_Resto_Min_Bobina
            /\ SobreDisponible(cand.desarrollo, v.ml, M * z_b)   \* ML_Usar_Todo_Bobina

(* the names under which the constraints are added to self.problema, in the
   order of the code; a name is the family and the ids that follow it *)
Restriccion(nombre, clave) == [nombre |-> nombre, clave |-> clave]

RestriccionesModelo(c, des, peds, cands) ==
    [k \in 1..Len(peds) |-> Restriccion("Cobertura_Min", <<peds[k].id>>)]
    \o [k \in 1..Len(peds) |-> Restriccion("Exceso_Max", <<peds[k].id>>)]
    \o [i \in 1..Len(cands) |-> Restriccion("Peso_Max", <<cands[i].id>>)]
    \o [i \in 1..Len(cands) |-> Restriccion("Activacion", <<cands[i].id>>)]
    \o [i \in 1..Len(cands) |-> Restriccion("Peso_Min", <<cands[i].id>>)]
    \o Aplanar([d \in 1..Len(des) |->
            IF BobinasDeEsteDesarrollo(cands, des[d]) # {}
            THEN <<Restriccion("Material_Disp", <<des[d].id>>)>>
            ELSE <<>>])
    \o Aplanar([k \in 1..Len(peds) |->
            IF peds[k].ml_minimos > 0
            THEN Aplanar([i \in 1..Len(cands) |->
                     IF peds[k].id \in DOMAIN cands[i].configuracion.cortes
                     THEN <<Restriccion("ML_Min", <<peds[k].id, cands[i].id>>)>>
                     ELSE <<>>])
            ELSE <<>>])
    \o (IF c.ml_minimo_resto > 0
        THEN Aplanar([d \in 1..Len(des) |->
                 IF BobinasDeEsteDesarrollo(cands, des[d]) # {}
                 THEN <<Restriccion("ML_Max", <<des[d].id>>),
                        Restriccion("ML_Resto_Min", <<des[d].id>>),
                        Restriccion("ML_Usar_Todo", <<des[d].id>>)>>
                 ELSE <<>>])
        ELSE <<>>)
    \o (IF c.ml_minimo_resto > 0
        THEN Aplanar([i \in 1..Len(cands) |->
                 <<Restriccion("ML_Resto_Min_Bobina", <<cands[i].id>>),
                   Restriccion("ML_Usar_Todo_Bobina", <<cands[i].id>>)>>])
        ELSE <<>>)

(* the values one candidate's variables may take under the constraints that
   mention that candidate alone: y binary, 0 <= ml <= 20000 *)
ValoresBobina(c, peds, cand) ==
    {v \in [y : {0, 1}, ml : 0..Min(MaxML, M)] :
        /\ Peso_Max(c, cand, v)
        /\ Activacion(cand, v)
        /\ Peso_Min(c, cand, v)
        /\ ML_Min(c, peds, cand, v)
        /\ RestoPorBobina(c, cand, v)}

RECURSIVE Producto(_, _, _, _)
Producto(c, peds, cands, n) ==
    IF n = 0 THEN {<<>>}
    ELSE {Append(a, v) : a \in Producto(c, peds, cands, n - 1),
                         v \in ValoresBobina(c, peds, cands[n])}

(* the assignments that satisfy every constraint of the model *)
Factibles(c, des, peds, cands) ==
    {a \in Producto(c, peds, cands, Len(cands)) :
        /\ \A k \in 1..Len(peds) : Cobertura_Min(c, cands, peds[k], a)
        /\ \A k \in 1..Len(peds) : Exceso_Max(c, cands, peds[k], a)
        /\ \A d \in 1..Len(des) : Material_Disp(cands, des[d], a)
        /\ \A d \in 1..Len(des) : RestoPorDesarrollo(c, cands, des[d], a)}

----------------------------------------------------------------------------
(* problema.solve(PULP_CBC_CMD(...)): the solver is outside the repository.
   It reports Optimal with an assignment that satisfies every constraint
   (proved optimal, or the incumbent when the time limit stops it),
   Infeasible when there is none, and may fail to decide.  After any other
   status the variables hold values nothing is known about. *)

EstadosSinSolucion == {"Not Solved", "Undefined", "Unbounded"}

ValoresSinSolucion(cands) ==
    {[i \in 1..Len(cands) |-> [y |-> 0, ml |-> 0]],
     [i \in 1..Len(cands) |-> [y |-> 1, ml |-> MaxML]]}

EsOptimo(c, des, peds, cands, a) ==
    /\ a \in Factibles(c, des, peds, cands)
    /\ \A b \in Factibles(c, des, peds, cands) :
           Objetivo(c, cands, a) <= Objetivo(c, cands, b)

----------------------------------------------------------------------------
(* _extraer_solucion *)

PrimerPedido(peds, pedido_id) ==
    peds[CHOOSE k \in 1..Len(peds) :
            /\ peds[k].id = pedido_id
            /\ \A l \in 1..(k - 1) : peds[l].id # pedido_id]

(* variant: the roll's kg are shared out by the orders' kg_solicitados *)
BobinaUsada_PorKgSolicitados(peds, cand, ml_valor) ==
    LET kg_total  == Peso(ml_valor, cand.desarrollo.espesor, cand.desarrollo.ancho)
        kg_usados == Peso(ml_valor, cand.desarrollo.espesor, cand.ancho_usado)
        ids       == DOMAIN cand.configuracion.cortes
        pedidos_kg == SumaSeq([k \in 1..Len(peds) |->
                          IF peds[k].id \in ids THEN peds[k].kg_solicitados ELSE 0])
    IN  [desarrollo      |-> cand.desarrollo,
         cortes          |->
            [pedido_id \in ids |->
                LET pedido == PrimerPedido(peds, pedido_id)
                IN  [num_cortes   |-> cand.configuracion.cortes[pedido_id],
                     ancho        |-> pedido.ancho,
                     kg_asignados |-> (kg_usados * pedido.kg_solicitados) \div pedidos_kg]],
         metros_lineales |-> ml_valor,
         kg_totales      |-> kg_total,
         desperdicio     |-> cand.desperdicio]

(* kg_usados * (ancho_usado_corte / ancho_usado); kg_usados is a multiple of
   ancho_usado, the division is done first to stay within 32 bits *)
BobinaUsada(peds, cand, ml_valor) ==
    LET kg_total  == Peso(ml_valor, cand.desarrollo.espesor, cand.desarrollo.ancho)
        kg_usados == Peso(ml_valor, cand.desarrollo.espesor, cand.ancho_usado)
    IN  [desarrollo      |-> cand.desarrollo,
         cortes          |->
            [pedido_id \in DOMAIN cand.configuracion.cortes |->
                LET num_cortes        == cand.configuracion.cortes[pedido_id]
                    pedido            == PrimerPedido(peds, pedido_id)
                    ancho_usado_corte == num_cortes * pedido.ancho
                IN  [num_cortes   |-> num_cortes,
                     ancho        |-> pedido.ancho,
                     kg_asignados |-> (kg_usados \div cand.ancho_usado) * ancho_usado_corte]],
         metros_lineales |-> ml_valor,
         kg_totales      |-> kg_total,
         desperdicio     |-> cand.desperdicio]

SeExtrae(v) == v.y = 1 /\ v.ml > UMBRAL_ML

ExtraerSolucion(c, peds, cands, a) ==
    LET usadas == SelectSeq([i \in 1..Len(cands) |-> i], LAMBDA i : SeExtrae(a[i]))
        bobinas_usadas ==
            [n \in 1..Len(usadas) |-> BobinaUsada(peds, cands[usadas[n]], a[usadas[n]].ml)]
    IN  [bobinas     |-> bobinas_usadas,
         num_bobinas |-> Len(bobinas_usadas),
         objetivo    |-> Objetivo(c, cands, a)]

----------------------------------------------------------------------------
(* _formatear_resultado *)

(* round(x, 2) of a weight: the nearest multiple of 1000 units, ties to even *)
Redondear2(x) ==
    LET q == x \div 1000
        r == x % 1000
    IN  IF r < 500 THEN q * 1000
        ELSE IF r > 500 THEN (q + 1) * 1000
        ELSE IF q % 2 = 0 THEN q * 1000 ELSE (q + 1) * 1000

Filas(sol) ==
    UNION {{[BOBINA            |-> i,
             PEDIDO            |-> pedido_id,
             NUM_CORTES        |-> sol.bobinas[i].cortes[pedido_id].num_cortes,
             ANCHO_CORTE       |-> sol.bobinas[i].cortes[pedido_id].ancho,
             METROS_LINEALES   |-> sol.bobinas[i].metros_lineales,
             KG_ASIGNADOS      |-> Redondear2(sol.bobinas[i].cortes[pedido_id].kg_asignados),
             KG_TOTALES_BOBINA |-> Redondear2(sol.bobinas[i].kg_totales),
             ANCHO_DESARROLLO  |-> sol.bobinas[i].desarrollo.ancho,
             DESPERDICIO       |-> sol.bobinas[i].desperdicio] :
                pedido_id \in DOMAIN sol.bobinas[i].cortes} :
           i \in 1..Len(sol.bobinas)}

RECURSIVE SumaKgAsignados(_)
SumaKgAsignados(filas) ==
    IF filas = {} THEN 0
    ELSE LET f == CHOOSE x \in filas : TRUE
         IN  f.KG_ASIGNADOS + SumaKgAsignados(filas \ {f})

(* kg_asignado sums rounded weights and kg_necesario is whole kg: both are
   multiples of 1000 units, and the comparison kg_asignado >= kg_necesario *
   0.95 is made on the quotients to stay within 32 bits *)
Cobertura(df_ped, filas) ==
    [pedido_id \in {df_ped[k].PEDIDO : k \in 1..Len(df_ped)} |->
        LET k == CHOOSE k \in 1..Len(df_ped) :
                    /\ df_ped[k].PEDIDO = pedido_id
                    /\ \A l \in (k + 1)..Len(df_ped) : df_ped[l].PEDIDO # pedido_id
            kg_necesario == KgU(df_ped[k].KG)
            kg_asignado  == SumaKgAsignados({f \in filas : f.PEDIDO = pedido_id})
        IN  [kg_asignado  |-> kg_asignado,
             kg_necesario |-> kg_necesario,
             cubierto     |-> (kg_asignado \div 1000) * 100
                                  >= (kg_necesario \div 1000) * COBERTURA_INFORME]]

(* df_resultado[df_resultado['PEDIDO'] == ...] on a frame built from no rows
   has no column PEDIDO: KeyError *)
FormatearLanza(df_ped, sol) == Filas(sol) = {} /\ Len(df_ped) > 0

FormatearResultado(df_ped, sol) ==
    LET filas     == Filas(sol)
        cobertura == Cobertura(df_ped, filas)
    IN  <<[num_bobinas       |-> sol.num_bobinas,
           dataframe         |-> filas,
           desperdicio_total |-> SumaSeq([i \in 1..Len(sol.bobinas) |->
                                              sol.bobinas[i].desperdicio]),
           kg_totales        |-> SumaSeq([i \in 1..Len(sol.bobinas) |->
                                              sol.bobinas[i].kg_totales]),
           cobertura         |-> cobertura,
           es_valido         |-> \A id \in DOMAIN cobertura : cobertura[id].cubierto]>>

----------------------------------------------------------------------------
(* Inputs *)

RECURSIVE SeqsDe(_, _)
SeqsDe(S, n) ==
    IF n = 0 THEN {<<>>} ELSE {Append(s, x) : s \in SeqsDe(S, n - 1), x \in S}

SeqsHasta(S, n) == UNION {SeqsDe(S, k) : k \in 1..n}

FilasDesarrollo ==
    {[ANCHO |-> 1000, ESPESOR |-> 1, ALEACION |-> "A", ESTADO |-> "H", KG |-> kg] :
        kg \in {12, 30}}

TiposPedido ==
    {[ANCHO |-> 500, KG |-> 14], [ANCHO |-> 500, KG |-> 20], [ANCHO |-> 200, KG |-> 10]}

(* the PEDIDO column numbers the rows *)
TablaPedidos(tipos) ==
    [i \in 1..Len(tipos) |->
        [PEDIDO |-> i, ANCHO |-> tipos[i].ANCHO, KG |-> tipos[i].KG,
         ALEACION |-> "A", ESTADO |-> "H", ESPESOR |-> 1, ML_MINIMOS |-> NaN]]

Parametros ==
    [desperdicio_bordes_minimo       : {0},
     desperdicio_bordes_maximo       : {100},
     kg_max_bobina                   : {10, 7500},
     kg_min_bobina                   : {0, 10},
     max_cortes_por_pedido           : {5},
     margen_cobertura                : {95},
     margen_exceso                   : {115},
     margen_tolerancia_ml_pct        : {10},
     ml_minimo_resto                 : {0, 3},
     max_pedidos_por_configuracion   : {6},
     factor_penalizacion_desperdicio : {0, 100}]

----------------------------------------------------------------------------
(* optimizar *)

(* float('inf'): above every score *)
Infinito == 2147483647

(* no parameter search is running: optimizar is called directly *)
SinBusqueda ==
    /\ combinaciones = <<>>
    /\ idx = 0
    /\ resultados = <<>>
    /\ mejor_resultado = <<>>
    /\ mejor_puntuacion = Infinito
    /\ retorno = <<>>

(* no OptimizadorBobinas object is at work *)
SinBobinas ==
    /\ combinaciones_por_desarrollo = <<>>
    /\ intento_actual = 0
    /\ estrategia = None
    /\ mejor_solucion = <<>>
    /\ mejor_puntuacion_bobinas = Infinito
    /\ pedidos_estado = <<>>
    /\ desarrollos_disponibles = <<>>
    /\ intento = 0
    /\ indice_desarrollo = 0
    /\ bobinas_intento = <<>>
    /\ desarrollo_actual = 0
    /\ pedidos_compatibles = <<>>

Init ==
    /\ pc = "inicio"
    /\ cfg \in Parametros
    /\ df_desarrollos \in SeqsHasta(FilasDesarrollo, MaxDesarrollos)
    /\ df_pedidos \in {TablaPedidos(t) : t \in SeqsHasta(TiposPedido, MaxPedidos)}
    /\ Len(GenerarBobinasCandidatas(cfg, CargarDesarrollos(df_desarrollos),
                                    CargarPedidos(df_pedidos))) <= MaxCandidatas
    /\ desarrollos = <<>>
    /\ pedidos = <<>>
    /\ bobinas_candidatas = <<>>
    /\ problema = <<>>
    /\ estado = None
    /\ valores = <<>>
    /\ solucion = <<>>
    /\ resultado = <<>>
    /\ SinBusqueda
    /\ SinBobinas

(* variant: the list of the previous call is kept and appended to *)
ListaNueva_SinVaciar(anterior) == anterior

(* self.desarrollos = [] and self.pedidos = [] at the start of _cargar_datos *)
ListaNueva(anterior) == <<>>

CargarDatos ==
    /\ pc = "inicio"
    /\ desarrollos' = ListaNueva(desarrollos) \o CargarDesarrollos(df_desarrollos)
    /\ pedidos' = ListaNueva(pedidos) \o CargarPedidos(df_pedidos)
    /\ pc' = "cargado"
    /\ UNCHANGED <<cfg, df_desarrollos, df_pedidos, bobinas_candidatas, problema, estado,
                   valores, solucion, resultado>>
    /\ UNCHANGED <<varsBusqueda, varsBobinas>>

GenerarCandidatas ==
    /\ pc = "cargado"
    /\ bobinas_candidatas' = GenerarBobinasCandidatas(cfg, desarrollos, pedidos)
    /\ pc' = "generado"
    /\ UNCHANGED <<cfg, df_desarrollos, df_pedidos, desarrollos, pedidos, problema, estado,
                   valores, solucion, resultado>>
    /\ UNCHANGED <<varsBusqueda, varsBobinas>>

CrearModelo ==
    /\ pc = "generado"
    /\ problema' = <<RestriccionesModelo(cfg, desarrollos, pedidos, bobinas_candidatas)>>
    /\ pc' = "modelado"
    /\ UNCHANGED <<cfg, df_desarrollos, df_pedidos, desarrollos, pedidos,
                   bobinas_candidatas, estado, valores, solucion, resultado>>
    /\ UNCHANGED <<varsBusqueda, varsBobinas>>

ResolverOptimal ==
    /\ pc = "modelado"
    /\ \E a \in Factibles(cfg, desarrollos, pedidos, bobinas_candidatas) :
           valores' = a
    /\ estado' = "Optimal"
    /\ pc' = "resuelto"
    /\ UNCHANGED <<cfg, df_desarrollos, df_pedidos, desarrollos, pedidos,
                   bobinas_candidatas, problema, solucion, resultado>>
    /\ UNCHANGED <<varsBusqueda, varsBobinas>>

ResolverInfeasible ==
    /\ pc = "modelado"
    /\ Factibles(cfg, desarrollos, pedidos, bobinas_candidatas) = {}
    /\ valores' \in ValoresSinSolucion(bobinas_candidatas)
    /\ estado' = "Infeasible"
    /\ pc' = "resuelto"
    /\ UNCHANGED <<cfg, df_desarrollos, df_pedidos, desarrollos, pedidos,
                   bobinas_candidatas, problema, solucion, resultado>>
    /\ UNCHANGED <<varsBusqueda, varsBobinas>>

ResolverSinDecidir ==
    /\ pc = "modelado"
    /\ valores' \in ValoresSinSolucion(bobinas_candidatas)
    /\ estado' \in EstadosSinSolucion
    /\ pc' = "resuelto"
    /\ UNCHANGED <<cfg, df_desarrollos, df_pedidos, desarrollos, pedidos,
                   bobinas_candidatas, problema, solucion, resultado>>
    /\ UNCHANGED <<varsBusqueda, varsBobinas>>

(* variant: only an Infeasible status is turned away *)
SeExtraeSolucion_SalvoInfeasible(est) == est # "Infeasible"

SeExtraeSolucion(est) == est = "Optimal"

Extraer ==
    /\ pc = "resuelto"
    /\ SeExtraeSolucion(estado)
    /\ solucion' = <<ExtraerSolucion(cfg, pedidos, bobinas_candidatas, valores)>>
    /\ pc' = "extraido"
    /\ UNCHANGED <<cfg, df_desarrollos, df_pedidos, desarrollos, pedidos,
                   bobinas_candidatas, problema, estado, valores, resultado>>
    /\ UNCHANGED <<varsBusqueda, varsBobinas>>

Formatear ==
    /\ pc = "extraido"
    /\ IF FormatearLanza(df_pedidos, solucion[1])
       THEN pc' = "excepcion" /\ resultado' = resultado
       ELSE pc' = "fin" /\ resultado' = FormatearResultado(df_pedidos, solucion[1])
    /\ UNCHANGED <<cfg, df_desarrollos, df_pedidos, desarrollos, pedidos,
                   bobinas_candidatas, problema, estado, valores, solucion>>
    /\ UNCHANGED <<varsBusqueda, varsBobinas>>

(* variant: after a status other than Optimal the solver is called again *)
TrasSinSolucion_Reintenta == "modelado"

(* the else branch returns [] and the call ends *)
TrasSinSolucion == "fin"

SinSolucion ==
    /\ pc = "resuelto"
    /\ ~SeExtraeSolucion(estado)
    /\ resultado' = <<>>
    /\ pc' = TrasSinSolucion
    /\ UNCHANGED <<cfg, df_desarrollos, df_pedidos, desarrollos, pedidos,
                   bobinas_candidatas, problema, estado, valores, solucion>>
    /\ UNCHANGED <<varsBusqueda, varsBobinas>>

Next ==
    \/ CargarDatos
    \/ GenerarCandidatas
    \/ CrearModelo
    \/ ResolverOptimal
    \/ ResolverInfeasible
    \/ ResolverSinDecidir
    \/ Extraer
    \/ Formatear
    \/ SinSolucion

Spec == Init /\ [][Next]_vars

----------------------------------------------------------------------------
(* The pattern generator alone, on order lists long enough for patterns of
   1 to 6 orders *)

AnchosPedidoGen == {150, 200}

ParametrosGen ==
    [desperdicio_bordes_minimo       : {0, 50},
     desperdicio_bordes_maximo       : {100},
     kg_max_bobina                   : {7500},
     kg_min_bobina                   : {200},
     max_cortes_por_pedido           : {5},
     margen_cobertura                : {95},
     margen_exceso                   : {115},
     margen_tolerancia_ml_pct        : {10},
     ml_minimo_resto                 : {0},
     max_pedidos_por_configuracion   : 1..6,
     factor_penalizacion_desperdicio : {0}]

TablaPedidosGen(anchos) ==
    [i \in 1..Len(anchos) |->
        [PEDIDO |-> i, ANCHO |-> anchos[i], KG |-> 10,
         ALEACION |-> "A", ESTADO |-> "H", ESPESOR |-> 1, ML_MINIMOS |-> NaN]]

InitGen ==
    /\ pc = "inicio"
    /\ cfg \in ParametrosGen
    /\ df_desarrollos = <<[ANCHO |-> 1000, ESPESOR |-> 1, ALEACION |-> "A",
                           ESTADO |-> "H", KG |-> 30]>>
    /\ df_pedidos \in {TablaPedidosGen(t) : t \in SeqsHasta(AnchosPedidoGen, MaxPedidosGen)}
    /\ desarrollos = <<>>
    /\ pedidos = <<>>
    /\ bobinas_candidatas = <<>>
    /\ problema = <<>>
    /\ estado = None
    /\ valores = <<>>
    /\ solucion = <<>>
    /\ resultado = <<>>
    /\ SinBusqueda
    /\ SinBobinas

NextGen ==
    \/ CargarDatos
    \/ GenerarCandidatas

SpecGen == InitGen /\ [][NextGen]_vars

----------------------------------------------------------------------------
(* The pattern generator on order lists with a narrow order, for which the
   limits on the cut counts differ between the first order of a combination
   and the others *)

MaxPedidosPerm == 4

AnchosPedidoPerm == {100, 150, 200}

InitPerm ==
    /\ pc = "inicio"
    /\ cfg \in ParametrosGen
    /\ df_desarrollos = <<[ANCHO |-> 1000, ESPESOR |-> 1, ALEACION |-> "A",
                           ESTADO |-> "H", KG |-> 30]>>
    /\ df_pedidos \in {TablaPedidosGen(t) : t \in SeqsHasta(AnchosPedidoPerm, MaxPedidosPerm)}
    /\ desarrollos = <<>>
    /\ pedidos = <<>>
    /\ bobinas_candidatas = <<>>
    /\ problema = <<>>
    /\ estado = None
    /\ valores = <<>>
    /\ solucion = <<>>
    /\ resultado = <<>>
    /\ SinBusqueda
    /\ SinBobinas

SpecPerm == InitPerm /\ [][NextGen]_vars

----------------------------------------------------------------------------
(* The pattern generator on order tables in which rows may share the value
   of the PEDIDO column: nothing in _cargar_datos rejects such a table *)

MaxPedidosDup == 3

FilasPedidoDup ==
    [PEDIDO : {1, 2}, ANCHO : {200, 300, 500}, KG : {10},
     ALEACION : {"A"}, ESTADO : {"H"}, ESPESOR : {1}, ML_MINIMOS : {NaN}]

InitDup ==
    /\ pc = "inicio"
    /\ cfg \in ParametrosGen
    /\ df_desarrollos = <<[ANCHO |-> 1000, ESPESOR |-> 1, ALEACION |-> "A",
                           ESTADO |-> "H", KG |-> 30]>>
    /\ df_pedidos \in SeqsHasta(FilasPedidoDup, MaxPedidosDup)
    /\ desarrollos = <<>>
    /\ pedidos = <<>>
    /\ bobinas_candidatas = <<>>
    /\ problema = <<>>
    /\ estado = None
    /\ valores = <<>>
    /\ solucion = <<>>
    /\ resultado = <<>>
    /\ SinBusqueda
    /\ SinBobinas

SpecDup == InitDup /\ [][NextGen]_vars

----------------------------------------------------------------------------
(* The whole of optimizar on the input families of the scenarios: one pattern
   for one order, orders too wide to share a roll, a stock roll of a whole
   number of linear metres with ml_minimo_resto, orders with ML_MINIMOS, and
   orders and stock rolls that are not compatible *)

ParametrosBase ==
    [desperdicio_bordes_minimo       |-> 0,
     desperdicio_bordes_maximo       |-> 100,
     kg_max_bobina                   |-> 7500,
     kg_min_bobina                   |-> 0,
     max_cortes_por_pedido           |-> 5,
     margen_cobertura                |-> 95,
     margen_exceso                   |-> 115,
     margen_tolerancia_ml_pct        |-> 10,
     ml_minimo_resto                 |-> 0,
     max_pedidos_por_configuracion   |-> 6,
     factor_penalizacion_desperdicio |-> 0]

FilaDesarrollo(ancho, espesor, aleacion, est, kg) ==
    [ANCHO |-> ancho, ESPESOR |-> espesor, ALEACION |-> aleacion, ESTADO |-> est, KG |-> kg]

TipoPedido(ancho, espesor, aleacion, est, kg, ml_minimos) ==
    [ANCHO |-> ancho, ESPESOR |-> espesor, ALEACION |-> aleacion, ESTADO |-> est,
     KG |-> kg, ML_MINIMOS |-> ml_minimos]

(* the PEDIDO column numbers the rows *)
TablaPedidosEsc(tipos) ==
    [i \in 1..Len(tipos) |->
        [PEDIDO |-> i, ANCHO |-> tipos[i].ANCHO, KG |-> tipos[i].KG,
         ALEACION |-> tipos[i].ALEACION, ESTADO |-> tipos[i].ESTADO,
         ESPESOR |-> tipos[i].ESPESOR, ML_MINIMOS |-> tipos[i].ML_MINIMOS]]

Entradas(cfgs, tablasDesarrollos, tiposPedido, n) ==
    {[cfg |-> c, df_desarrollos |-> d, df_pedidos |-> TablaPedidosEsc(t)] :
        c \in cfgs, d \in tablasDesarrollos, t \in SeqsHasta(tiposPedido, n)}

(* one stock roll 1000 mm, one order 400 mm, waste window [0, 250] *)
EntradasA ==
    Entradas({[ParametrosBase EXCEPT !.desperdicio_bordes_maximo = 250,
                                     !.kg_min_bobina = kmin,
                                     !.ml_minimo_resto = resto] :
                 kmin \in {0, 10}, resto \in {0, 3}},
             {<<FilaDesarrollo(1000, 1, "A", "H", kg)>> : kg \in {12, 30}},
             {TipoPedido(400, 1, "A", "H", kg, NaN) : kg \in {10, 20}},
             1)

(* orders 600 mm and 450 mm on a stock roll 1000 mm x 2 mm *)
EntradasC ==
    Entradas({[ParametrosBase EXCEPT !.desperdicio_bordes_maximo = 400]},
             {<<FilaDesarrollo(1000, 2, "A", "H", 60)>>},
             {TipoPedido(600, 2, "A", "H", 3, NaN),
              TipoPedido(600, 2, "A", "H", 6, NaN),
              TipoPedido(450, 2, "A", "H", 20, NaN)},
             MaxPedidos)

(* a stock roll 1000 mm x 10 mm of 273 kg holds exactly 10 linear metres *)
EntradasD ==
    Entradas({[ParametrosBase EXCEPT !.ml_minimo_resto = resto] : resto \in {0, 3}},
             SeqsHasta({FilaDesarrollo(1000, 10, "A", "H", 273)}, MaxDesarrollos),
             {TipoPedido(500, 10, "A", "H", 200, NaN),
              TipoPedido(200, 10, "A", "H", 60, NaN),
              TipoPedido(200, 10, "A", "H", 55, NaN),
              TipoPedido(500, 10, "A", "H", 273, NaN)},
             MaxPedidos)

(* three orders too wide to share a roll, on the same stock roll *)
EntradasD3 ==
    {[cfg            |-> [ParametrosBase EXCEPT !.desperdicio_bordes_maximo = 500,
                                                !.ml_minimo_resto = resto],
      df_desarrollos |-> <<FilaDesarrollo(1000, 10, "A", "H", 273)>>,
      df_pedidos     |-> TablaPedidosEsc(<<TipoPedido(600, 10, "A", "H", 115, NaN),
                                           TipoPedido(550, 10, "A", "H", 30, NaN),
                                           TipoPedido(700, 10, "A", "H", kg, NaN)>>)] :
        resto \in {0, 3}, kg \in {18, 36}}

(* orders with ML_MINIMOS *)
EntradasML ==
    Entradas({ParametrosBase},
             {<<FilaDesarrollo(1000, 1, "A", "H", 30)>>},
             {TipoPedido(500, 1, "A", "H", kg, ml_minimos) :
                 kg \in {14, 20}, ml_minimos \in {NaN, 5, 8}},
             MaxPedidos)

(* stock rolls and orders that differ in alloy, temper, thickness or width;
   tables of one or two rows each *)
DesarrollosI ==
    {FilaDesarrollo(1000, 1, "A", "H", 12), FilaDesarrollo(1000, 1, "A", "H", 30),
     FilaDesarrollo(400, 1, "A", "H", 12), FilaDesarrollo(1000, 2, "B", "O", 30)}

EntradasI ==
    Entradas({[ParametrosBase EXCEPT !.ml_minimo_resto = resto] : resto \in {0, 6}},
             SeqsHasta(DesarrollosI, 2),
             {TipoPedido(500, 1, "A", "H", 14, NaN),
              TipoPedido(500, 1, "B", "H", 14, NaN),
              TipoPedido(500, 1, "B", "H", 0, NaN),
              TipoPedido(500, 1, "A", "O", 14, NaN),
              TipoPedido(500, 2, "A", "H", 14, NaN),
              TipoPedido(200, 1, "A", "H", 10, NaN)},
             2)

EntradasEsc ==
    EntradasA \cup EntradasC \cup EntradasD \cup EntradasD3 \cup EntradasML \cup EntradasI

InitEsc ==
    /\ pc = "inicio"
    /\ \E e \in EntradasEsc :
        /\ cfg = e.cfg
        /\ df_desarrollos = e.df_desarrollos
        /\ df_pedidos = e.df_pedidos
    /\ Len(GenerarBobinasCandidatas(cfg, CargarDesarrollos(df_desarrollos),
                                    CargarPedidos(df_pedidos))) <= MaxCandidatas
    /\ desarrollos = <<>>
    /\ pedidos = <<>>
    /\ bobinas_candidatas = <<>>
    /\ problema = <<>>
    /\ estado = None
    /\ valores = <<>>
    /\ solucion = <<>>
    /\ resultado = <<>>
    /\ SinBusqueda
    /\ SinBobinas

SpecEsc == InitEsc /\ [][Next]_vars

(* optimizar on the stock rolls of a whole number of linear metres alone *)
InitResto ==
    /\ pc = "inicio"
    /\ \E e \in EntradasD \cup EntradasD3 :
        /\ cfg = e.cfg
        /\ df_desarrollos = e.df_desarrollos
        /\ df_pedidos = e.df_pedidos
    /\ Len(GenerarBobinasCandidatas(cfg, CargarDesarrollos(df_desarrollos),
                                    CargarPedidos(df_pedidos))) <= MaxCandidatas
    /\ desarrollos = <<>>
    /\ pedidos = <<>>
    /\ bobinas_candidatas = <<>>
    /\ problema = <<>>
    /\ estado = None
    /\ valores = <<>>
    /\ solucion = <<>>
    /\ resultado = <<>>
    /\ SinBusqueda
    /\ SinBobinas

SpecResto == InitResto /\ [][Next]_vars

(* optimizar under the coverage margins the interface accepts, 0.80 to 1.00 *)
EntradasCob ==
    Entradas({[ParametrosBase EXCEPT !.margen_cobertura = cob] : cob \in {80, 95, 100}},
             {<<FilaDesarrollo(1000, 1, "A", "H", 30)>>},
             {TipoPedido(500, 1, "A", "H", 14, NaN), TipoPedido(500, 1, "A", "H", 20, NaN),
              TipoPedido(200, 1, "A", "H", 10, NaN)},
             MaxPedidos)

InitCob ==
    /\ pc = "inicio"
    /\ \E e \in EntradasCob :
        /\ cfg = e.cfg
        /\ df_desarrollos = e.df_desarrollos
        /\ df_pedidos = e.df_pedidos
    /\ Len(GenerarBobinasCandidatas(cfg, CargarDesarrollos(df_desarrollos),
                                    CargarPedidos(df_pedidos))) <= MaxCandidatas
    /\ desarrollos = <<>>
    /\ pedidos = <<>>
    /\ bobinas_candidatas = <<>>
    /\ problema = <<>>
    /\ estado = None
    /\ valores = <<>>
    /\ solucion = <<>>
    /\ resultado = <<>>
    /\ SinBusqueda
    /\ SinBobinas

SpecCob == InitCob /\ [][Next]_vars

(* the model built for heavy stock rolls: kg_max_bobina over the range of
   the interface (1000 to 10000 kg), narrow and wide stock rolls *)
EntradasM ==
    Entradas({[ParametrosBase EXCEPT !.kg_max_bobina = kmax] : kmax \in {1000, 7500, 10000}},
             {<<FilaDesarrollo(ancho, espesor, "A", "H", kg)>> :
                 ancho \in {100, 1000}, espesor \in {1, 2}, kg \in {30, 7500, 20000}},
             {TipoPedido(50, 1, "A", "H", 10, NaN), TipoPedido(500, 1, "A", "H", 14, NaN),
              TipoPedido(50, 2, "A", "H", 10, NaN), TipoPedido(500, 2, "A", "H", 14, NaN)},
             MaxPedidos)

InitM ==
    /\ pc = "inicio"
    /\ \E e \in EntradasM :
        /\ cfg = e.cfg
        /\ df_desarrollos = e.df_desarrollos
        /\ df_pedidos = e.df_pedidos
    /\ desarrollos = <<>>
    /\ pedidos = <<>>
    /\ bobinas_candidatas = <<>>
    /\ problema = <<>>
    /\ estado = None
    /\ valores = <<>>
    /\ solucion = <<>>
    /\ resultado = <<>>
    /\ SinBusqueda
    /\ SinBobinas

NextM ==
    \/ CargarDatos
    \/ GenerarCandidatas
    \/ CrearModelo

SpecM == InitM /\ [][NextM]_vars

----------------------------------------------------------------------------
(* Several calls, one after another: optimizar again on the same
   OptimizadorILP object, or optimizar_ilp, which builds a new object *)

ParametrosLl == {ParametrosBase, [ParametrosBase EXCEPT !.kg_min_bobina = 10]}

DesarrollosLl == {<<FilaDesarrollo(1000, 1, "A", "H", kg)>> : kg \in {12, 30}}

PedidosLl ==
    {TablaPedidosEsc(<<t>>) : t \in {TipoPedido(500, 1, "A", "H", 14, NaN),
                                     TipoPedido(200, 1, "A", "H", 10, NaN)}}

InitLl ==
    /\ pc = "inicio"
    /\ cfg \in ParametrosLl
    /\ df_desarrollos \in DesarrollosLl
    /\ df_pedidos \in PedidosLl
    /\ desarrollos = <<>>
    /\ pedidos = <<>>
    /\ bobinas_candidatas = <<>>
    /\ problema = <<>>
    /\ estado = None
    /\ valores = <<>>
    /\ solucion = <<>>
    /\ resultado = <<>>
    /\ SinBusqueda
    /\ SinBobinas

Terminada == pc \in {"fin", "excepcion"}

(* optimizar is called again on the same object: the object keeps its
   fields, the locals of the call are new *)
LlamarOptimizar ==
    /\ Terminada
    /\ df_desarrollos' \in DesarrollosLl
    /\ df_pedidos' \in PedidosLl
    /\ bobinas_candidatas' = <<>>
    /\ estado' = None
    /\ valores' = <<>>
    /\ resultado' = <<>>
    /\ pc' = "inicio"
    /\ UNCHANGED <<cfg, desarrollos, pedidos, problema, solucion>>
    /\ UNCHANGED <<varsBusqueda, varsBobinas>>

(* optimizar_ilp is called: a new object is built from the parameters *)
LlamarOptimizarIlp ==
    /\ Terminada
    /\ cfg' \in ParametrosLl
    /\ df_desarrollos' \in DesarrollosLl
    /\ df_pedidos' \in PedidosLl
    /\ desarrollos' = <<>>
    /\ pedidos' = <<>>
    /\ problema' = <<>>
    /\ solucion' = <<>>
    /\ bobinas_candidatas' = <<>>
    /\ estado' = None
    /\ valores' = <<>>
    /\ resultado' = <<>>
    /\ pc' = "inicio"
    /\ UNCHANGED <<varsBusqueda, varsBobinas>>

NextLl ==
    \/ CargarDatos
    \/ GenerarCandidatas
    \/ CrearModelo
    \/ ResolverOptimal
    \/ ResolverInfeasible
    \/ ResolverSinDecidir
    \/ Extraer
    \/ Formatear
    \/ SinSolucion
    \/ LlamarOptimizar
    \/ LlamarOptimizarIlp

SpecLl == InitLl /\ [][NextLl]_vars

----------------------------------------------------------------------------
(* optimizador_parametros.py: OptimizadorParametros.buscar_parametros_optimos.
   Every trial calls optimizar_ilp, which builds a new OptimizadorILP and
   runs optimizar on the tables of the search; the trial is the run of the
   actions of optimizar above.  The PEDIDO column holds strings (the
   interface casts it), so str(PEDIDO) is the value itself.  The time a
   trial takes ('tiempo') is not modelled. *)

(* list(product(l_1, ..., l_n)): the last list varies fastest *)
RECURSIVE ProductoListas(_)
ProductoListas(listas) ==
    IF listas = <<>> THEN << <<>> >>
    ELSE LET resto == ProductoListas(Tail(listas))
         IN  Aplanar([i \in 1..Len(Head(listas)) |->
                        [j \in 1..Len(resto) |-> <<Head(listas)[i]>> \o resto[j]]])

CombinacionesDe(rangos) ==
    ProductoListas(<<rangos.desperdicio_min, rangos.desperdicio_max, rangos.margen_exceso,
                     rangos.ml_minimo_resto, rangos.margen_cobertura,
                     rangos.relajacion_ml_pct, rangos.factor_penalizacion>>)

(* parametros_fijos: kg_max_bobina as in the code; kg_min_bobina and
   max_cortes_por_pedido at the scale of the model's rolls *)
ParametrosFijos ==
    [kg_max_bobina |-> 7500, kg_min_bobina |-> 0, max_cortes_por_pedido |-> 5]

(* the constructor arguments optimizar_ilp receives for a combination; what
   is not passed keeps the default of optimizar_ilp *)
ParametrosDePrueba(comb) ==
    [desperdicio_bordes_minimo       |-> comb[1],
     desperdicio_bordes_maximo       |-> comb[2],
     kg_max_bobina                   |-> ParametrosFijos.kg_max_bobina,
     kg_min_bobina                   |-> ParametrosFijos.kg_min_bobina,
     max_cortes_por_pedido           |-> ParametrosFijos.max_cortes_por_pedido,
     margen_cobertura                |-> comb[5],
     margen_exceso                   |-> comb[3],
     margen_tolerancia_ml_pct        |-> comb[6],
     ml_minimo_resto                 |-> comb[4],
     max_pedidos_por_configuracion   |-> 6,
     factor_penalizacion_desperdicio |-> comb[7]]

(* len(df_resultado['BOBINA'].unique()) *)
NumBobinas(filas) == Cardinality({f.BOBINA : f \in filas})

(* df_resultado.groupby('BOBINA')['DESPERDICIO'].first().sum() *)
RECURSIVE SumaPrimeros(_, _)
SumaPrimeros(filas, bobinas) ==
    IF bobinas = {} THEN 0
    ELSE LET b == CHOOSE x \in bobinas : TRUE
             f == CHOOSE x \in filas : x.BOBINA = b
         IN  f.DESPERDICIO + SumaPrimeros(filas, bobinas \ {b})

DesperdicioTotal(filas) == SumaPrimeros(filas, {f.BOBINA : f \in filas})

(* kg_asignado / kg_solicitado * 100, in hundredths of a percent, rounded
   down; 0 when kg_solicitado is 0.  Both weights are multiples of 1000
   units *)
CoberturaPct(filas, fila_pedido) ==
    LET kg_asignado   == SumaKgAsignados({f \in filas : f.PEDIDO = fila_pedido.PEDIDO})
        kg_solicitado == KgU(fila_pedido.KG)
    IN  IF kg_solicitado > 0
        THEN ((kg_asignado \div 1000) * 10000) \div (kg_solicitado \div 1000)
        ELSE 0

RECURSIVE CoberturaMin(_, _, _)
CoberturaMin(filas, df_ped, k) ==
    IF k = 0 THEN 10000
    ELSE Min(CoberturaMin(filas, df_ped, k - 1), CoberturaPct(filas, df_ped[k]))

COBERTURA_VALIDA == 8500
PESO_BOBINAS == 10000

(* the dict 'resultado' of a trial that returned a solution *)
ResultadoDePrueba(comb, df_ped, solucion_ilp) ==
    LET filas == solucion_ilp.dataframe
        num_bobinas == NumBobinas(filas)
        desperdicio_total == DesperdicioTotal(filas)
        cobertura_min == CoberturaMin(filas, df_ped, Len(df_ped))
    IN  [desperdicio_min      |-> comb[1],
         desperdicio_max      |-> comb[2],
         margen_exceso_pct    |-> comb[3] - 100,
         ml_minimo_resto      |-> comb[4],
         margen_cobertura_pct |-> comb[5],
         relajacion_ml_pct    |-> comb[6],
         factor_penalizacion  |-> comb[7],
         num_bobinas          |-> num_bobinas,
         desperdicio_total    |-> desperdicio_total,
         cobertura_min        |-> cobertura_min,
         puntuacion           |-> num_bobinas * PESO_BOBINAS + desperdicio_total,
         valido               |-> cobertura_min >= COBERTURA_VALIDA]

(* variant: a trial with the same score replaces the best one *)
MejoraLaPuntuacion_OIguala(puntuacion, mejor) == puntuacion <= mejor

(* puntuacion < mejor_puntuacion, mejor_puntuacion starting at float('inf') *)
MejoraLaPuntuacion(puntuacion, mejor) == puntuacion < mejor

(* sorted(..., key=puntuacion): stable *)
RECURSIVE InsertarPorPuntuacion(_, _)
InsertarPorPuntuacion(ordenados, r) ==
    IF ordenados = <<>> THEN <<r>>
    ELSE IF Head(ordenados).puntuacion <= r.puntuacion
         THEN <<Head(ordenados)>> \o InsertarPorPuntuacion(Tail(ordenados), r)
         ELSE <<r>> \o ordenados

RECURSIVE OrdenarPorPuntuacion(_, _)
OrdenarPorPuntuacion(lista, n) ==
    IF n = 0 THEN <<>>
    ELSE InsertarPorPuntuacion(OrdenarPorPuntuacion(lista, n - 1), lista[n])

(* mejor is <<>> for None and <<r>> for a trial; so is the value returned:
   <<>> for None, else the dict *)
FormatearResultados(mejor, todos) ==
    IF mejor = <<>> THEN <<>>
    ELSE LET validos  == SelectSeq(todos, LAMBDA r : r.valido)
             ordenados == OrdenarPorPuntuacion(validos, Len(validos))
         IN  <<[mejor |-> mejor[1],
                top5  |-> SubSeq(ordenados, 1, Min(5, Len(ordenados))),
                todos |-> todos]>>

(* the lists of values of the search, at the scale of the model's rolls (a
   few metres, tens of kg), cut down to one or two values per parameter *)
RangosBusqueda ==
    {[desperdicio_min     |-> dmin,
      desperdicio_max     |-> dmax,
      margen_exceso       |-> <<115>>,
      ml_minimo_resto     |-> <<0>>,
      margen_cobertura    |-> cob,
      relajacion_ml_pct   |-> <<10>>,
      factor_penalizacion |-> <<0>>] :
        dmin \in {<<0>>, <<0, 50>>},
        dmax \in {<<100>>, <<50, 100>>},
        cob  \in {<<90>>, <<90, 95>>}}

(* the tables of a search: one stock roll with one or two orders, and two
   stock rolls that can both serve one small order *)
TablasBusqueda ==
    {[df_desarrollos |-> <<FilaDesarrollo(1000, 1, "A", "H", 30)>>,
      df_pedidos     |-> TablaPedidosEsc(t)] :
        t \in {<<TipoPedido(200, 1, "A", "H", 10, NaN)>>,
               <<TipoPedido(500, 1, "A", "H", 14, NaN), TipoPedido(200, 1, "A", "H", 10, NaN)>>,
               <<TipoPedido(300, 1, "A", "H", 10, NaN)>>,
               <<TipoPedido(500, 1, "B", "H", 0, NaN)>>}}
    \cup
    {[df_desarrollos |-> <<FilaDesarrollo(1000, 1, "A", "H", 30),
                           FilaDesarrollo(400, 1, "A", "H", 12)>>,
      df_pedidos     |-> TablaPedidosEsc(<<TipoPedido(200, 1, "A", "H", 3, NaN)>>)]}

MaxCombinaciones == 4

(* before the first trial there is no OptimizadorILP: the fields of the
   engine hold the values of an object nobody has used *)
InitBusqueda ==
    /\ pc = "buscar"
    /\ cfg = ParametrosBase
    /\ \E t \in TablasBusqueda :
        /\ df_desarrollos = t.df_desarrollos
        /\ df_pedidos = t.df_pedidos
    /\ desarrollos = <<>>
    /\ pedidos = <<>>
    /\ bobinas_candidatas = <<>>
    /\ problema = <<>>
    /\ estado = None
    /\ valores = <<>>
    /\ solucion = <<>>
    /\ resultado = <<>>
    /\ combinaciones \in {CombinacionesDe(r) : r \in RangosBusqueda}
    /\ Len(combinaciones) <= MaxCombinaciones
    /\ idx = 0
    /\ resultados = <<>>
    /\ mejor_resultado = <<>>
    /\ mejor_puntuacion = Infinito
    /\ retorno = <<>>
    /\ SinBobinas

(* the loop takes the next combination; desp_min >= desp_max: continue;
   otherwise optimizar_ilp builds a new OptimizadorILP and calls optimizar *)
IniciarPrueba ==
    /\ pc = "buscar"
    /\ idx < Len(combinaciones)
    /\ idx' = idx + 1
    /\ LET comb == combinaciones[idx + 1]
       IN  IF comb[1] >= comb[2]
           THEN /\ pc' = "buscar"
                /\ UNCHANGED <<cfg, desarrollos, pedidos, bobinas_candidatas, problema,
                               estado, valores, solucion, resultado>>
           ELSE /\ pc' = "inicio"
                /\ cfg' = ParametrosDePrueba(comb)
                /\ desarrollos' = <<>>
                /\ pedidos' = <<>>
                /\ bobinas_candidatas' = <<>>
                /\ problema' = <<>>
                /\ estado' = None
                /\ valores' = <<>>
                /\ solucion' = <<>>
                /\ resultado' = <<>>
    /\ UNCHANGED <<df_desarrollos, df_pedidos, combinaciones, resultados,
                   mejor_resultado, mejor_puntuacion, retorno>>
    /\ UNCHANGED varsBobinas

(* variant: an exception or an empty list ends the search *)
TrasPruebaOmitida_Termina == "abandonada"

(* except: pass, and a falsy 'soluciones': the loop goes on *)
TrasPruebaOmitida == "buscar"

(* optimizar_ilp has returned or raised *)
RegistrarPrueba ==
    /\ Terminada
    /\ IF pc = "excepcion" \/ resultado = <<>>
       THEN /\ pc' = TrasPruebaOmitida
            /\ UNCHANGED <<resultados, mejor_resultado, mejor_puntuacion>>
       ELSE LET r == ResultadoDePrueba(combinaciones[idx], df_pedidos, resultado[1])
            IN  /\ pc' = "buscar"
                /\ resultados' = Append(resultados, r)
                /\ IF r.valido /\ MejoraLaPuntuacion(r.puntuacion, mejor_puntuacion)
                   THEN /\ mejor_puntuacion' = r.puntuacion
                        /\ mejor_resultado' = <<r>>
                   ELSE UNCHANGED <<mejor_resultado, mejor_puntuacion>>
    /\ UNCHANGED <<cfg, df_desarrollos, df_pedidos, desarrollos, pedidos,
                   bobinas_candidatas, problema, estado, valores, solucion, resultado,
                   combinaciones, idx, retorno>>
    /\ UNCHANGED varsBobinas

(* the loop is over: return self._formatear_resultados(mejor_resultado) *)
TerminarBusqueda ==
    /\ pc = "buscar"
    /\ idx = Len(combinaciones)
    /\ retorno' = FormatearResultados(mejor_resultado, resultados)
    /\ pc' = "devuelto"
    /\ UNCHANGED <<cfg, df_desarrollos, df_pedidos, desarrollos, pedidos,
                   bobinas_candidatas, problema, estado, valores, solucion, resultado,
                   combinaciones, idx, resultados, mejor_resultado, mejor_puntuacion>>
    /\ UNCHANGED varsBobinas

NextBusqueda ==
    \/ IniciarPrueba
    \/ CargarDatos
    \/ GenerarCandidatas
    \/ CrearModelo
    \/ ResolverOptimal
    \/ ResolverInfeasible
    \/ ResolverSinDecidir
    \/ Extraer
    \/ Formatear
    \/ SinSolucion
    \/ RegistrarPrueba
    \/ TerminarBusqueda

SpecBusqueda == InitBusqueda /\ [][NextBusqueda]_vars

----------------------------------------------------------------------------
(* The heuristic optimizer of optimizador_rodillos.py (class
   OptimizadorBobinas).  cfg holds its constructor's parameters, desarrollos
   and pedidos its lists self.desarrollos and self.pedidos.  Weights are in
   units of 1e-5 kg, also kg_disponibles and kg_pendientes, which the
   heuristic decrements by fractions of a kg; lengths are whole metres,
   quotients rounded down. *)

(* bounds: the largest max_intentos of the inputs, and the argument
   num_intentos_por_estrategia of optimizar_con_progreso *)
MaxIntentos == 2
IntentosPorEstrategia == 1

(* program constants *)
ML_MINIMO_BOBINA == 100
PASO_CANDIDATOS == 200
MIN_CANDIDATOS == 10
MAX_CANDIDATOS == 30
MEJORES_COMBINACIONES == 5

Max(a, b) == IF a > b THEN a ELSE b

(* the permutations of 1..n *)
Permutaciones(n) ==
    {p \in [1..n -> 1..n] : \A i, j \in 1..n : i # j => p[i] # p[j]}

RECURSIVE MaxSeq(_)
MaxSeq(s) == IF s = <<>> THEN 0 ELSE Max(Head(s), MaxSeq(Tail(s)))

(* kg * (1 + pct / 100) *)
ConMargen(kg, pct) == kg + (kg \div 100) * pct

calcular_kg_de_ml(ancho, espesor, ml) == Peso(ml, espesor, ancho)

calcular_ml_de_kg(ancho, espesor, kg) ==
    IF ancho = 0 \/ espesor = 0 THEN 0
    ELSE kg \div (273 * espesor * ancho)

cargar_desarrollos(df) ==
    [i \in 1..Len(df) |->
        [ancho          |-> df[i].ANCHO,
         espesor        |-> df[i].ESPESOR,
         aleacion       |-> df[i].ALEACION,
         estado         |-> df[i].ESTADO,
         kg_disponibles |-> KgU(df[i].KG)]]

cargar_pedidos(df) ==
    [i \in 1..Len(df) |->
        [id             |-> df[i].PEDIDO,
         ancho          |-> df[i].ANCHO,
         kg_solicitados |-> KgU(df[i].KG),
         ml_minimos     |-> IF df[i].ML_MINIMOS # NaN THEN df[i].ML_MINIMOS ELSE 0,
         aleacion       |-> df[i].ALEACION,
         estado         |-> df[i].ESTADO,
         espesor        |-> df[i].ESPESOR]]

(* _generar_combinaciones_recursivas: the combinations it appends, in order;
   i orders of the tuple are already placed *)
RECURSIVE generar_combinaciones_recursivas(_, _, _, _, _, _, _)
generar_combinaciones_recursivas(c, peds, ancho_desarrollo, max_cortes, asignacion_actual, i, ancho_usado) ==
    IF i = Len(peds)
    THEN LET desperdicio == ancho_desarrollo - ancho_usado
         IN  IF 0 <= desperdicio /\ desperdicio <= c.desperdicio_max /\ ancho_usado > 0
             THEN <<[pedidos     |-> asignacion_actual,
                     ancho_usado |-> ancho_usado,
                     desperdicio |-> desperdicio]>>
             ELSE <<>>
    ELSE LET pedido_actual       == peds[i + 1]
             espacio_restante    == ancho_desarrollo - ancho_usado
             max_cortes_posibles == Min(espacio_restante \div pedido_actual.ancho,
                                        max_cortes)
         IN  Aplanar([num_cortes \in 1..max_cortes_posibles |->
                 LET nuevo_ancho == ancho_usado + pedido_actual.ancho * num_cortes
                 IN  IF nuevo_ancho <= ancho_desarrollo
                     THEN generar_combinaciones_recursivas(
                              c, peds, ancho_desarrollo, max_cortes,
                              Append(asignacion_actual,
                                     [pedido |-> pedido_actual, num_cortes |-> num_cortes]),
                              i + 1, nuevo_ancho)
                     ELSE <<>>])

generar_combinaciones_corte(c, desarrollo, peds) ==
    LET ancho_minimo == CHOOSE a \in {peds[k].ancho : k \in 1..Len(peds)} :
                            \A k \in 1..Len(peds) : a <= peds[k].ancho
        max_pedidos_teorico ==
            IF peds # <<>>
            THEN Min(desarrollo.ancho \div ancho_minimo,
                     Min(c.max_pedidos_por_bobina, Len(peds)))
            ELSE 1
        de_un_pedido ==
            Aplanar([k \in 1..Len(peds) |->
                LET max_cortes_posibles == Min(desarrollo.ancho \div peds[k].ancho,
                                               c.max_cortes_por_pedido)
                IN  Aplanar([num_cortes \in 1..max_cortes_posibles |->
                        LET ancho_usado == peds[k].ancho * num_cortes
                            desperdicio == desarrollo.ancho - ancho_usado
                        IN  IF 0 <= desperdicio /\ desperdicio <= c.desperdicio_max
                            THEN <<[pedidos     |-> <<[pedido     |-> peds[k],
                                                       num_cortes |-> num_cortes]>>,
                                    ancho_usado |-> ancho_usado,
                                    desperdicio |-> desperdicio]>>
                            ELSE <<>>])])
        de_varios ==
            Aplanar([n \in 1..(max_pedidos_teorico - 1) |->
                LET num_pedidos == n + 1
                    max_cortes_por_pedido_ajustado ==
                        Max(1, c.max_cortes_por_pedido \div num_pedidos)
                    combos == Combinaciones(num_pedidos, 1, Len(peds))
                IN  Aplanar([j \in 1..Len(combos) |->
                        generar_combinaciones_recursivas(
                            c, [l \in 1..num_pedidos |-> peds[combos[j][l]]],
                            desarrollo.ancho, max_cortes_por_pedido_ajustado,
                            <<>>, 0, 0)])])
    IN  de_un_pedido \o de_varios

(* _validar_integridad_bobina; desarrollo is the stock roll of the bobina *)
validar_integridad_bobina(c, bobina, desarrollo) ==
    LET ml      == bobina.metros_lineales
        espesor == desarrollo.espesor
        cortes  == bobina.cortes
        ancho_total_usado == SumaSeq([k \in 1..Len(cortes) |-> cortes[k].ancho_usado])
        kg_real_total     == calcular_kg_de_ml(ancho_total_usado, espesor, ml)
        kg_gen(k)         == Peso(ml, espesor, cortes[k].num_cortes * cortes[k].ancho_corte)
        suma_kg_generados == SumaSeq([k \in 1..Len(cortes) |-> kg_gen(k)])
        suma_kg_asignados == SumaSeq([k \in 1..Len(cortes) |-> cortes[k].kg_asignados])
    IN  /\ ~ (ancho_total_usado > desarrollo.ancho)
        /\ ~ (Max(bobina.kg_totales - kg_real_total, kg_real_total - bobina.kg_totales) > kg_real_total \div 50)
        /\ \A k \in 1..Len(cortes) :
            ~ (cortes[k].kg_asignados - kg_gen(k) > kg_gen(k) \div 100)
        /\ ~ (Max(suma_kg_generados - kg_real_total, kg_real_total - suma_kg_generados) > KgU(1))
        /\ \A k \in 1..Len(cortes) :
            LET diferencia_absoluta == Max(cortes[k].kg_asignados - kg_gen(k), kg_gen(k) - cortes[k].kg_asignados)
            IN  ~ (/\ diferencia_absoluta > KgU(1)
                   /\ kg_gen(k) > 0
                   /\ diferencia_absoluta > kg_gen(k) \div 100)
        /\ ~ (suma_kg_asignados - kg_real_total > kg_real_total \div 100)
        /\ ~ (kg_real_total - KgU(c.kg_max_bobina) > KgU(c.kg_max_bobina) \div 100)

(* the body of the loop over candidatos_ml for one ml_prueba: <<>> when the
   candidate is skipped *)
EvaluarMl(c, combinacion, desarrollo, estado_pedidos, ml_prueba, ml_min_global) ==
    LET espesor == desarrollo.espesor
        asigs   == combinacion.pedidos
        kg_real_total_bobina == calcular_kg_de_ml(combinacion.ancho_usado, espesor, ml_prueba)
        kg_pendiente(k) == estado_pedidos[asigs[k].pedido.id]
        kg_generado(k)  == Peso(ml_prueba, espesor, asigs[k].pedido.ancho * asigs[k].num_cortes)
        kg_asignar(k)   == Min(kg_generado(k), ConMargen(kg_pendiente(k), c.margen_exceso_bobina))
        valido == \A k \in 1..Len(asigs) :
                      /\ ~ (kg_pendiente(k) <= 0)
                      /\ ~ (kg_asignar(k) < KgU(1))
        kg_total_asignado == SumaSeq([k \in 1..Len(asigs) |-> kg_asignar(k)])
    IN  IF \/ kg_real_total_bobina > KgU(c.kg_max_bobina)
           \/ kg_real_total_bobina < KgU(c.kg_min_bobina)
           \/ ~ valido
           \/ ml_prueba < ml_min_global
           \/ kg_total_asignado < KgU(c.kg_min_bobina)
        THEN <<>>
        ELSE <<[ml       |-> ml_prueba,
                kg_total |-> kg_total_asignado,
                kg_real  |-> kg_real_total_bobina,
                cortes   |-> [k \in 1..Len(asigs) |->
                                [pedido_id    |-> asigs[k].pedido.id,
                                 num_cortes   |-> asigs[k].num_cortes,
                                 ancho_corte  |-> asigs[k].pedido.ancho,
                                 ancho_usado  |-> asigs[k].pedido.ancho * asigs[k].num_cortes,
                                 kg_asignados |-> kg_asignar(k)]]]>>

(* _crear_bobina_desde_combinacion: <<>> for None, else <<bobina>>; the
   field desarrollo of the bobina is the position of the stock roll in
   desarrollos_disponibles *)
crear_bobina_desde_combinacion(c, combinacion, desarrollo, posicion, estado_pedidos) ==
    LET espesor           == desarrollo.espesor
        ancho_total_usado == combinacion.ancho_usado
        asigs             == combinacion.pedidos
        pedidos_ids       == [k \in 1..Len(asigs) |-> asigs[k].pedido.id]
        ml_max_por_kg     == calcular_ml_de_kg(ancho_total_usado, espesor, KgU(c.kg_max_bobina))
        ml_min_global     == MaxSeq([k \in 1..Len(asigs) |-> asigs[k].pedido.ml_minimos])
        ml_necesario_max  ==
            MaxSeq([k \in 1..Len(asigs) |->
                calcular_ml_de_kg(asigs[k].pedido.ancho * asigs[k].num_cortes, espesor,
                                  ConMargen(estado_pedidos[asigs[k].pedido.id],
                                            c.margen_exceso_pedidos))])
        ml_min == Max(ml_min_global, ML_MINIMO_BOBINA)
        ml_max == IF ml_necesario_max > 0
                  THEN Min(ml_max_por_kg, (ml_necesario_max * 3) \div 2)
                  ELSE ml_max_por_kg
        num_candidatos == Min(Max((ml_max - ml_min) \div PASO_CANDIDATOS, MIN_CANDIDATOS),
                              MAX_CANDIDATOS)
        candidatos_ml  ==                                    \* np.linspace
            [n \in 1..num_candidatos |->
                ml_min + ((n - 1) * (ml_max - ml_min)) \div (num_candidatos - 1)]
        evaluados == [n \in 1..num_candidatos |->
                         EvaluarMl(c, combinacion, desarrollo, estado_pedidos,
                                   candidatos_ml[n], ml_min_global)]
        aceptados == {n \in 1..num_candidatos : evaluados[n] # <<>>}
        mejor == CHOOSE n \in aceptados :
                     \A o \in aceptados :
                         \/ evaluados[o][1].kg_total < evaluados[n][1].kg_total
                         \/ (evaluados[o][1].kg_total = evaluados[n][1].kg_total /\ n <= o)
        bobina == [desarrollo      |-> posicion,
                   metros_lineales |-> evaluados[mejor][1].ml,
                   kg_totales      |-> evaluados[mejor][1].kg_real,
                   desperdicio     |-> combinacion.desperdicio,
                   cortes          |-> evaluados[mejor][1].cortes]
    IN  IF Cardinality({pedidos_ids[k] : k \in 1..Len(asigs)}) # Len(asigs) THEN <<>>
        ELSE IF \E k \in 1..Len(asigs) : asigs[k].num_cortes <= 0 THEN <<>>
        ELSE IF ml_min > ml_max THEN <<>>
        ELSE IF aceptados = {} THEN <<>>
        ELSE IF ~ validar_integridad_bobina(c, bobina, desarrollo) THEN <<>>
        ELSE <<bobina>>

(* _evaluar_solucion, in units of 1e-5 *)
evaluar_solucion(lista, peds) ==
    LET num_bobinas       == Len(lista)
        desperdicio_total == SumaSeq([n \in 1..Len(lista) |-> lista[n].desperdicio])
        kg_asignado(id)   ==
            SumaSeq([n \in 1..Len(lista) |->
                SumaSeq([k \in 1..Len(lista[n].cortes) |->
                    IF lista[n].cortes[k].pedido_id = id
                    THEN lista[n].cortes[k].kg_asignados ELSE 0])])
        kg_faltante(k)    == Max(0, peds[k].kg_solicitados - kg_asignado(peds[k].id))
    IN  num_bobinas * KgU(1000) + desperdicio_total * KgU(10)
            + SumaSeq([k \in 1..Len(peds) |-> kg_faltante(k) * 5])

(* list.sort(key=...): the positions of claves in ascending order of key,
   equal keys in their original order *)
OrdenEstable(claves) ==
    [r \in 1..Len(claves) |->
        CHOOSE i \in 1..Len(claves) :
            Cardinality({j \in 1..Len(claves) :
                            \/ claves[j] < claves[i]
                            \/ (claves[j] = claves[i] /\ j < i)}) = r - 1]

Estrategias == <<"balanceada", "priorizar_grandes", "priorizar_pequenos", "diversa">>

(* umbral_kg_pendiente = self.kg_min_bobina / 2 *)
UmbralKgPendiente(c) == KgU(c.kg_min_bobina) \div 2

(* {p['id']: {'kg_pendientes': p['kg_solicitados']} for p in self.pedidos} *)
EstadoInicial(peds) ==
    Diccionario([k \in 1..Len(peds) |-> peds[k].id],
                [k \in 1..Len(peds) |-> peds[k].kg_solicitados])

(* the orders the strategy may leave in desarrollos_disponibles *)
OrdenesIniciales(e, des) ==
    LET kgs == [i \in 1..Len(des) |-> des[i].kg_disponibles]
    IN  IF e = "priorizar_pequenos"
        THEN {[r \in 1..Len(des) |-> des[OrdenEstable(kgs)[r]]]}
        ELSE IF e = "priorizar_grandes"
        THEN {[r \in 1..Len(des) |->
                  des[OrdenEstable([i \in 1..Len(des) |-> 0 - kgs[i]])[r]]]}
        ELSE IF e = "diversa"
        THEN {[r \in 1..Len(des) |-> des[p[r]]] : p \in Permutaciones(Len(des))}
        ELSE {des}

(* the condition of the while loop *)
SigueElBucle(c, peds, estado_pedidos, n) ==
    /\ \E k \in 1..Len(peds) : estado_pedidos[peds[k].id] > UmbralKgPendiente(c)
    /\ n < c.max_intentos

(* positions of the stock rolls with kg_disponibles above the threshold *)
DesarrollosValidos(c, disponibles) ==
    SelectSeq([i \in 1..Len(disponibles) |-> i],
              LAMBDA i : disponibles[i].kg_disponibles > UmbralKgPendiente(c))

(* the positions desarrollo_actual may take in iteration n *)
Elegibles(c, e, disponibles, n, indice) ==
    LET validos == DesarrollosValidos(c, disponibles)
        primero(claves) == validos[OrdenEstable(claves)[1]]
    IN  IF e = "balanceada"
        THEN IF n % 3 = 0
             THEN {primero([v \in 1..Len(validos) |-> 0 - disponibles[validos[v]].ancho])}
             ELSE IF n % 3 = 1
             THEN {primero([v \in 1..Len(validos) |->
                               0 - disponibles[validos[v]].kg_disponibles])}
             ELSE {validos[v] : v \in 1..Len(validos)}
        ELSE {validos[(indice % Len(validos)) + 1]}

CompatibleConTipo(p, desarrollo) ==
    /\ p.aleacion = desarrollo.aleacion
    /\ p.estado = desarrollo.estado
    /\ p.espesor = desarrollo.espesor

PedidosCompatiblesPendientes(c, desarrollo, peds, estado_pedidos) ==
    SelectSeq(peds, LAMBDA p : /\ CompatibleConTipo(p, desarrollo)
                               /\ estado_pedidos[p.id] > UmbralKgPendiente(c))

ClaveDesarrollo(desarrollo) ==
    <<desarrollo.aleacion, desarrollo.estado, desarrollo.espesor, desarrollo.ancho>>

CombinacionesValidas(c, combs, estado_pedidos) ==
    LET validas == SelectSeq(combs, LAMBDA comb :
                       \A k \in 1..Len(comb.pedidos) :
                           estado_pedidos[comb.pedidos[k].pedido.id] > UmbralKgPendiente(c))
        orden   == OrdenEstable([j \in 1..Len(validas) |->
                       validas[j].desperdicio - 10000 * Len(validas[j].pedidos)])
    IN  [r \in 1..Len(validas) |-> validas[orden[r]]]

(* for combinacion in combinaciones_validas[:5]: the first bobina created,
   <<>> when none *)
PrimeraBobina(c, validas, desarrollo, posicion, estado_pedidos) ==
    LET intentos == [j \in 1..Min(MEJORES_COMBINACIONES, Len(validas)) |->
                        crear_bobina_desde_combinacion(c, validas[j], desarrollo,
                                                       posicion, estado_pedidos)]
        creadas  == {j \in 1..Len(intentos) : intentos[j] # <<>>}
    IN  IF creadas = {} THEN <<>>
        ELSE intentos[CHOOSE j \in creadas : \A o \in creadas : j <= o]

ParametrosBobinas ==
    [desperdicio_max       : {40},
     margen_exceso_pedidos : {10},
     kg_max_bobina         : {500},
     kg_min_bobina         : {200},
     max_intentos          : 1..MaxIntentos,
     margen_exceso_bobina  : {15},
     max_cortes_por_pedido : {15},
     max_pedidos_por_bobina : {6}]

FilasDesarrolloBobinas ==
    {[ANCHO |-> 1000, ESPESOR |-> 1, ALEACION |-> "A", ESTADO |-> "H", KG |-> 3000],
     [ANCHO |-> 1000, ESPESOR |-> 1, ALEACION |-> "A", ESTADO |-> "H", KG |-> 150],
     [ANCHO |-> 800, ESPESOR |-> 1, ALEACION |-> "A", ESTADO |-> "H", KG |-> 2000]}

TiposPedidoBobinas ==
    {[ANCHO |-> 250, KG |-> 500], [ANCHO |-> 300, KG |-> 500],
     [ANCHO |-> 1000, KG |-> 300]}

InitBobinas ==
    /\ pc = "construido"
    /\ cfg \in ParametrosBobinas
    /\ df_desarrollos \in SeqsHasta(FilasDesarrolloBobinas, 2)
    /\ df_pedidos \in {TablaPedidos(t) : t \in SeqsHasta(TiposPedidoBobinas, 2)}
    /\ desarrollos = <<>>
    /\ pedidos = <<>>
    /\ bobinas_candidatas = <<>>
    /\ problema = <<>>
    /\ estado = None
    /\ valores = <<>>
    /\ solucion = <<>>
    /\ resultado = <<>>
    /\ SinBusqueda
    /\ SinBobinas

CargarDesarrollosBobinas ==
    /\ pc = "construido"
    /\ desarrollos' = cargar_desarrollos(df_desarrollos)
    /\ pc' = "con_desarrollos"
    /\ UNCHANGED <<cfg, df_desarrollos, df_pedidos, pedidos, bobinas_candidatas,
                   problema, estado, valores, solucion, resultado,
                   varsBusqueda, varsBobinas>>

CargarPedidosBobinas ==
    /\ pc = "con_desarrollos"
    /\ pedidos' = cargar_pedidos(df_pedidos)
    /\ pc' = "listo"
    /\ UNCHANGED <<cfg, df_desarrollos, df_pedidos, desarrollos, bobinas_candidatas,
                   problema, estado, valores, solucion, resultado,
                   varsBusqueda, varsBobinas>>

(* optimizar_con_progreso takes the next attempt and _generar_solucion_inicial
   runs up to its while loop *)
IniciarSolucion ==
    /\ pc = "listo"
    /\ intento_actual < Len(Estrategias) * IntentosPorEstrategia
    /\ intento_actual' = intento_actual + 1
    /\ estrategia' = Estrategias[(intento_actual \div IntentosPorEstrategia) + 1]
    /\ bobinas_intento' = <<>>
    /\ pedidos_estado' = EstadoInicial(pedidos)
    /\ desarrollos_disponibles' \in OrdenesIniciales(estrategia', desarrollos)
    /\ intento' = 0
    /\ indice_desarrollo' = 0
    /\ desarrollo_actual' = 0
    /\ pedidos_compatibles' = <<>>
    /\ pc' = "bucle"
    /\ UNCHANGED <<cfg, df_desarrollos, df_pedidos, desarrollos, pedidos,
                   bobinas_candidatas, problema, estado, valores, solucion, resultado,
                   varsBusqueda, combinaciones_por_desarrollo, mejor_solucion,
                   mejor_puntuacion_bobinas>>

(* one iteration of the while loop of _generar_solucion_inicial *)
IterarBucle ==
    /\ pc = "bucle"
    /\ SigueElBucle(cfg, pedidos, pedidos_estado, intento)
    /\ intento' = intento + 1
    /\ IF DesarrollosValidos(cfg, desarrollos_disponibles) = <<>>
       THEN /\ pc' = "salida"
            /\ UNCHANGED <<combinaciones_por_desarrollo, pedidos_estado,
                           desarrollos_disponibles, indice_desarrollo, bobinas_intento,
                           desarrollo_actual, pedidos_compatibles>>
       ELSE \E posicion \in Elegibles(cfg, estrategia, desarrollos_disponibles,
                                       intento + 1, indice_desarrollo) :
            LET desarrollo  == desarrollos_disponibles[posicion]
                clave       == ClaveDesarrollo(desarrollo)
                compatibles == PedidosCompatiblesPendientes(cfg, desarrollo, pedidos,
                                                            pedidos_estado)
            IN  /\ pc' = "bucle"
                /\ desarrollo_actual' = posicion
                /\ indice_desarrollo' = IF estrategia = "balanceada" THEN indice_desarrollo
                                        ELSE indice_desarrollo + 1
                /\ pedidos_compatibles' = compatibles
                /\ IF compatibles = <<>>
                   THEN UNCHANGED <<combinaciones_por_desarrollo, pedidos_estado,
                                    desarrollos_disponibles, bobinas_intento>>
                   ELSE \E cache \in
                            {IF clave \in DOMAIN combinaciones_por_desarrollo
                             THEN combinaciones_por_desarrollo
                             ELSE combinaciones_por_desarrollo @@
                                  (clave :> generar_combinaciones_corte(cfg, desarrollo,
                                                                        compatibles))} :
                        \E creada \in
                            {PrimeraBobina(cfg,
                                           CombinacionesValidas(cfg, cache[clave],
                                                                pedidos_estado),
                                           desarrollo, posicion, pedidos_estado)} :
                            /\ combinaciones_por_desarrollo' = cache
                            /\ IF creada = <<>>
                               THEN UNCHANGED <<pedidos_estado, desarrollos_disponibles,
                                                bobinas_intento>>
                               ELSE /\ bobinas_intento' = Append(bobinas_intento, creada[1])
                                    /\ pedidos_estado' =
                                           [id \in DOMAIN pedidos_estado |->
                                               pedidos_estado[id] - SumaSeq(
                                                   [k \in 1..Len(creada[1].cortes) |->
                                                       IF creada[1].cortes[k].pedido_id = id
                                                       THEN creada[1].cortes[k].kg_asignados
                                                       ELSE 0])]
                                    /\ desarrollos_disponibles' =
                                           [desarrollos_disponibles EXCEPT
                                               ![posicion].kg_disponibles =
                                                   @ - creada[1].kg_totales]
    /\ UNCHANGED <<cfg, df_desarrollos, df_pedidos, desarrollos, pedidos,
                   bobinas_candidatas, problema, estado, valores, solucion, resultado,
                   varsBusqueda, intento_actual, estrategia, mejor_solucion,
                   mejor_puntuacion_bobinas>>

(* _generar_solucion_inicial returns bobinas and optimizar_con_progreso
   scores a non-empty list *)
DevolverSolucion ==
    /\ \/ pc = "salida"
       \/ pc = "bucle" /\ ~ SigueElBucle(cfg, pedidos, pedidos_estado, intento)
    /\ IF /\ bobinas_intento # <<>>
          /\ evaluar_solucion(bobinas_intento, pedidos) < mejor_puntuacion_bobinas
       THEN /\ mejor_puntuacion_bobinas' = evaluar_solucion(bobinas_intento, pedidos)
            /\ mejor_solucion' = <<bobinas_intento>>
       ELSE UNCHANGED <<mejor_puntuacion_bobinas, mejor_solucion>>
    /\ pc' = "listo"
    /\ UNCHANGED <<cfg, df_desarrollos, df_pedidos, desarrollos, pedidos,
                   bobinas_candidatas, problema, estado, valores, solucion, resultado,
                   varsBusqueda, combinaciones_por_desarrollo, intento_actual, estrategia,
                   pedidos_estado, desarrollos_disponibles, intento, indice_desarrollo,
                   bobinas_intento, desarrollo_actual, pedidos_compatibles>>

(* optimizar_con_progreso returns mejor_solucion *)
TerminarOptimizacion ==
    /\ pc = "listo"
    /\ intento_actual = Len(Estrategias) * IntentosPorEstrategia
    /\ pc' = "optimizado"
    /\ UNCHANGED <<cfg, df_desarrollos, df_pedidos, desarrollos, pedidos,
                   bobinas_candidatas, problema, estado, valores, solucion, resultado,
                   varsBusqueda, varsBobinas>>

NextBobinas ==
    \/ CargarDesarrollosBobinas
    \/ CargarPedidosBobinas
    \/ IniciarSolucion
    \/ IterarBucle
    \/ DevolverSolucion
    \/ TerminarOptimizacion

SpecBobinas == InitBobinas /\ [][NextBobinas]_vars

----------------------------------------------------------------------------
(* Properties *)

Devuelto == pc = "fin" /\ resultado # <<>>

KgEnSolucion(sol, pedido_id) ==
    SumaSeq([i \in 1..Len(sol.bobinas) |->
        IF pedido_id \in DOMAIN sol.bobinas[i].cortes
        THEN sol.bobinas[i].cortes[pedido_id].kg_asignados
        ELSE 0])

KgBrutosDe(sol, desarrollo) ==
    SumaSeq([i \in 1..Len(sol.bobinas) |->
        IF sol.bobinas[i].desarrollo.id = desarrollo.id
        THEN Peso(sol.bobinas[i].metros_lineales, desarrollo.espesor, desarrollo.ancho)
        ELSE 0])

MismoTipo(d1, d2) ==
    /\ d1.ancho = d2.ancho
    /\ d1.espesor = d2.espesor
    /\ d1.aleacion = d2.aleacion
    /\ d1.estado = d2.estado

NumUsados(a) == SumaSeq([i \in 1..Len(a) |-> a[i].y])
TotalML(a) == SumaSeq([i \in 1..Len(a) |-> a[i].ml])
FactiblesActuales == Factibles(cfg, desarrollos, pedidos, bobinas_candidatas)

(* C1: in every non-empty result, the kg allocated to each order over the
   returned rolls lie between kg_solicitados * margen_cobertura and
   kg_solicitados * margen_exceso. *)
C1_VentanaDeCobertura ==
    Devuelto =>
        \A k \in 1..Len(pedidos) :
            /\ KgEnSolucion(solucion[1], pedidos[k].id)
                   >= KgMargen(pedidos[k], cfg.margen_cobertura)
            /\ KgEnSolucion(solucion[1], pedidos[k].id)
                   <= KgMargen(pedidos[k], cfg.margen_exceso)

(* C2: in every returned result, the gross kg (ml * 2.73 * espesor * full
   width / 1000) of the rolls cut from one stock roll never exceed that stock
   roll's kg_disponibles. *)
C2_Conservacion ==
    Devuelto =>
        \A d \in 1..Len(desarrollos) :
            KgBrutosDe(solucion[1], desarrollos[d]) <= KgU(desarrollos[d].kg_disponibles)

(* a result in which one more metre from some used stock roll would exceed it *)
C2_Testigo ==
    /\ Devuelto
    /\ \E d \in 1..Len(desarrollos) :
        /\ KgBrutosDe(solucion[1], desarrollos[d]) > 0
        /\ KgBrutosDe(solucion[1], desarrollos[d])
              + Peso(1, desarrollos[d].espesor, desarrollos[d].ancho)
                 > KgU(desarrollos[d].kg_disponibles)

(* C3: every generated pattern, of 1 to 6 orders, has ancho_usado <= stock
   width and desperdicio = stock width - ancho_usado inside
   [desperdicio_bordes_minimo, desperdicio_bordes_maximo]. *)
C3_DesperdicioAcotado ==
    \A i \in 1..Len(bobinas_candidatas) :
        LET cand == bobinas_candidatas[i]
        IN  /\ cand.ancho_usado <= cand.desarrollo.ancho
            /\ cand.ancho_usado = cand.configuracion.ancho_usado
            /\ cand.desperdicio = cand.desarrollo.ancho - cand.ancho_usado
            /\ cfg.desperdicio_bordes_minimo <= cand.desperdicio
            /\ cand.desperdicio <= cfg.desperdicio_bordes_maximo

(* patterns of every size from 1 to 6 orders were generated *)
C3_Testigo ==
    /\ pc = "generado"
    /\ \A k \in 1..6 :
        \E i \in 1..Len(bobinas_candidatas) :
            Cardinality(DOMAIN bobinas_candidatas[i].configuracion.cortes) = k

(* C4: optimizar extracts and returns a non-empty list only when the status
   is Optimal; for every other status it returns the empty list and never
   extracts an allocation. *)
C4_SoloOptimalExtrae ==
    /\ pc \in {"extraido", "excepcion"} => estado = "Optimal"
    /\ pc = "fin" =>
        /\ resultado # <<>> <=> estado = "Optimal"
        /\ estado # "Optimal" => solucion = <<>>

(* an infeasible model whose variables hold non-zero values, answered with [] *)
C4_Testigo ==
    /\ pc = "fin"
    /\ estado = "Infeasible"
    /\ \E i \in 1..Len(valores) : valores[i].y = 1 /\ valores[i].ml > UMBRAL_ML
    /\ resultado = <<>>

(* C5: inside every extracted roll the kg of any two orders are in the ratio
   of the widths they occupy (cuts * width), and each equals
   ml * 2.73 * espesor * cuts * width / 1000, the expression of the coverage
   constraints. *)
C5_RepartoProporcional ==
    solucion # <<>> =>
        \A n \in 1..Len(solucion[1].bobinas) :
            LET b == solucion[1].bobinas[n]
            IN  \A i \in DOMAIN b.cortes :
                    /\ b.cortes[i].kg_asignados
                          = Peso(b.metros_lineales, b.desarrollo.espesor,
                                 b.cortes[i].num_cortes * b.cortes[i].ancho)
                    /\ \A j \in DOMAIN b.cortes \ {i} :
                          b.cortes[i].kg_asignados
                                * (b.cortes[j].num_cortes * b.cortes[j].ancho)
                            = b.cortes[j].kg_asignados
                                * (b.cortes[i].num_cortes * b.cortes[i].ancho)

(* a returned roll shared by two orders that asked for different kg *)
C5_Testigo ==
    /\ Devuelto
    /\ \E n \in 1..Len(solucion[1].bobinas) :
        \E i, j \in DOMAIN solucion[1].bobinas[n].cortes :
            /\ i # j
            /\ PrimerPedido(pedidos, i).kg_solicitados
                  # PrimerPedido(pedidos, j).kg_solicitados

(* C6: the candidate list never holds two candidates with the same stock type
   (width, thickness, alloy, temper) and the same order -> cuts mapping. *)
C6_SinCandidatasRepetidas ==
    \A i, j \in 1..Len(bobinas_candidatas) :
        i # j =>
            ~ /\ MismoTipo(bobinas_candidatas[i].desarrollo, bobinas_candidatas[j].desarrollo)
              /\ bobinas_candidatas[i].configuracion.cortes
                    = bobinas_candidatas[j].configuracion.cortes

(* C7: no generated pattern combines more than
   max_pedidos_por_configuracion distinct orders. *)
C7_MaximoPedidosPorConfiguracion ==
    \A i \in 1..Len(bobinas_candidatas) :
        Cardinality(DOMAIN bobinas_candidatas[i].configuracion.cortes)
            <= cfg.max_pedidos_por_configuracion

(* two instance slots of every candidate pattern *)
DosInstancias(cands) ==
    [n \in 1..(2 * Len(cands)) |->
        LET o == cands[((n - 1) % Len(cands)) + 1]
        IN  [id            |-> n,
             desarrollo    |-> o.desarrollo,
             configuracion |-> o.configuracion,
             ancho_usado   |-> o.ancho_usado,
             desperdicio   |-> o.desperdicio]]

(* C8: a pattern can be produced several times, each instance with its own
   activation flag and linear metres: whenever producing the one candidate
   pattern as two rolls satisfies every constraint, the model built by
   _crear_modelo_ilp admits a solution. *)
C8_VariasBobinasPorPatron ==
    (pc = "modelado" /\ Len(bobinas_candidatas) = 1) =>
        (Factibles(cfg, desarrollos, pedidos, DosInstancias(bobinas_candidatas)) # {}
            => FactiblesActuales # {})

(* C9: for factor_penalizacion_desperdicio in 0..0.1 and wastes in 0..100 mm,
   a feasible assignment that uses fewer patterns has a strictly smaller
   objective than any feasible assignment that uses more. *)
C9_DominaNumeroDePatrones ==
    (/\ pc = "modelado"
     /\ cfg.factor_penalizacion_desperdicio \in 0..100
     /\ \A i \in 1..Len(bobinas_candidatas) : bobinas_candidatas[i].desperdicio \in 0..100) =>
        \A a, b \in FactiblesActuales :
            NumUsados(a) < NumUsados(b)
                => Objetivo(cfg, bobinas_candidatas, a) < Objetivo(cfg, bobinas_candidatas, b)

(* C10: among feasible assignments that use the same patterns the objective
   strictly prefers more total linear metres; so with one pattern and one
   order (Scenario A) every optimal solution allocates the most the excess
   margin admits. *)
C10_PrefiereMasMetros ==
    /\ pc = "modelado" =>
        \A a, b \in FactiblesActuales :
            (/\ \A i \in 1..Len(a) : a[i].y = b[i].y
             /\ TotalML(a) > TotalML(b))
                => Objetivo(cfg, bobinas_candidatas, a) < Objetivo(cfg, bobinas_candidatas, b)
    /\ (/\ pc = "resuelto"
        /\ estado = "Optimal"
        /\ Len(bobinas_candidatas) = 1
        /\ Len(pedidos) = 1
        /\ EsOptimo(cfg, desarrollos, pedidos, bobinas_candidatas, valores)) =>
            \A b \in FactiblesActuales :
                KgAsignados(bobinas_candidatas, pedidos[1], b)
                    <= KgAsignados(bobinas_candidatas, pedidos[1], valores)

Generadas == pc \notin {"inicio", "cargado"}

EscenarioA ==
    /\ Len(df_desarrollos) = 1
    /\ df_desarrollos[1].ANCHO = 1000
    /\ Len(df_pedidos) = 1
    /\ df_pedidos[1].ANCHO = 400
    /\ Compatible(CargarPedidos(df_pedidos)[1], CargarDesarrollos(df_desarrollos)[1])
    /\ cfg.desperdicio_bordes_minimo = 0
    /\ cfg.desperdicio_bordes_maximo = 250

(* C11: Scenario A.  For one stock roll 1000 mm wide and one compatible order
   400 mm wide with waste window [0, 250], the generator yields exactly one
   candidate, 2 cuts, used width 800, waste 200 (the 1-cut pattern, waste
   600, is rejected), and every non-empty result reports num_bobinas = 1 and
   desperdicio_total = 200. *)
C11_EscenarioA ==
    EscenarioA =>
        /\ Generadas =>
            /\ Len(bobinas_candidatas) = 1
            /\ bobinas_candidatas[1].configuracion.cortes
                  = [id \in {pedidos[1].id} |-> 2]
            /\ bobinas_candidatas[1].ancho_usado = 800
            /\ bobinas_candidatas[1].desperdicio = 200
        /\ Devuelto =>
            /\ resultado[1].num_bobinas = 1
            /\ resultado[1].desperdicio_total = 200

(* Scenario A answered with a result *)
C11_Testigo == EscenarioA /\ Devuelto

PedidosDeEntrada == CargarPedidos(df_pedidos)
DesarrollosDeEntrada == CargarDesarrollos(df_desarrollos)

(* whole kg available on the stock rolls compatible with an order *)
KgCompatibles(pedido) ==
    SumaSeq([d \in 1..Len(DesarrollosDeEntrada) |->
        IF Compatible(pedido, DesarrollosDeEntrada[d])
        THEN DesarrollosDeEntrada[d].kg_disponibles ELSE 0])

FaltaMaterial ==
    \E k \in 1..Len(PedidosDeEntrada) :
        KgCompatibles(PedidosDeEntrada[k]) * 100
            < PedidosDeEntrada[k].kg_solicitados * cfg.margen_cobertura

SinResultado ==
    /\ pc \notin {"extraido", "excepcion"}
    /\ pc = "resuelto" => estado # "Optimal"
    /\ pc = "fin" => resultado = <<>>

(* C12: Scenario B, generalized.  Whenever the kg available on the stock
   rolls compatible with some order add up to less than that order's
   kg_solicitados * margen_cobertura, optimizar returns the empty list: it
   neither extracts a solution nor raises. *)
C12_FaltaMaterial == FaltaMaterial => SinResultado

(* an order that has patterns on a compatible stock roll too light to cover
   it, answered with [] *)
C12_Testigo ==
    /\ pc = "fin"
    /\ resultado = <<>>
    /\ estado = "Infeasible"
    /\ \E k \in 1..Len(pedidos) :
        /\ KgCompatibles(pedidos[k]) > 0
        /\ KgCompatibles(pedidos[k]) * 100 < pedidos[k].kg_solicitados * cfg.margen_cobertura
        /\ \E i \in 1..Len(bobinas_candidatas) :
               pedidos[k].id \in DOMAIN bobinas_candidatas[i].configuracion.cortes

(* two orders that do not fit side by side on any stock roll of the input *)
NoCabenJuntos(p1, p2) ==
    /\ p1.id # p2.id
    /\ \A d \in 1..Len(desarrollos) : p1.ancho + p2.ancho > desarrollos[d].ancho

(* C13: Scenario C, generalized.  Two orders whose widths add up to more than
   the stock width never share a generated pattern; so when both ask for
   kg > 0, every non-empty result holds at least two rolls, with distinct
   patterns, one for each of the two orders. *)
C13_DosPatrones ==
    /\ Generadas =>
        \A i \in 1..Len(bobinas_candidatas) : \A k, l \in 1..Len(pedidos) :
            (/\ pedidos[k].id # pedidos[l].id
             /\ pedidos[k].ancho + pedidos[l].ancho > bobinas_candidatas[i].desarrollo.ancho)
                => ~ /\ pedidos[k].id \in DOMAIN bobinas_candidatas[i].configuracion.cortes
                     /\ pedidos[l].id \in DOMAIN bobinas_candidatas[i].configuracion.cortes
    /\ Devuelto =>
        \A k, l \in 1..Len(pedidos) :
            (/\ NoCabenJuntos(pedidos[k], pedidos[l])
             /\ pedidos[k].kg_solicitados > 0
             /\ pedidos[l].kg_solicitados > 0)
                => /\ solucion[1].num_bobinas >= 2
                   /\ \E m, n \in 1..Len(solucion[1].bobinas) :
                        /\ m # n
                        /\ solucion[1].bobinas[m].cortes # solucion[1].bobinas[n].cortes
                        /\ pedidos[k].id \in DOMAIN solucion[1].bobinas[m].cortes
                        /\ pedidos[l].id \in DOMAIN solucion[1].bobinas[n].cortes

(* linear metres of the returned rolls cut from a stock roll *)
MlDevueltos(sol, desarrollo) ==
    SumaSeq([i \in 1..Len(sol.bobinas) |->
        IF sol.bobinas[i].desarrollo.id = desarrollo.id
        THEN sol.bobinas[i].metros_lineales ELSE 0])

(* x linear metres are all of the stock roll, or leave at least resto *)
TodoOResto(desarrollo, x, resto) ==
    \/ x * MlDen(desarrollo) = MlNum(desarrollo)
    \/ (x + resto) * MlDen(desarrollo) <= MlNum(desarrollo)

(* C14: Scenario D.  When ml_minimo_resto > 0, in every non-empty result each
   stock roll is either consumed fully (the linear metres produced from it
   equal kg_disponibles / (2.73 * espesor * ancho / 1000)) or left with at
   least ml_minimo_resto metres: no remainder strictly between 0 and
   ml_minimo_resto. *)
C14_RestoPorDesarrollo ==
    (Devuelto /\ cfg.ml_minimo_resto > 0) =>
        \A d \in 1..Len(desarrollos) :
            TodoOResto(desarrollos[d], MlDevueltos(solucion[1], desarrollos[d]),
                       cfg.ml_minimo_resto)

FamiliasDeResto ==
    {"ML_Max", "ML_Resto_Min", "ML_Usar_Todo", "ML_Resto_Min_Bobina", "ML_Usar_Todo_Bobina"}

(* C15: when ml_minimo_resto > 0, every roll of a non-empty result satisfies
   the remainder rule on its own: its linear metres equal the most its stock
   roll can give, or fall short of it by at least ml_minimo_resto; when
   ml_minimo_resto = 0 the model holds no remainder constraint, per stock
   roll or per roll. *)
C15_RestoPorBobina ==
    /\ (Devuelto /\ cfg.ml_minimo_resto > 0) =>
        \A n \in 1..Len(solucion[1].bobinas) :
            TodoOResto(solucion[1].bobinas[n].desarrollo,
                       solucion[1].bobinas[n].metros_lineales, cfg.ml_minimo_resto)
    /\ (problema # <<>> /\ cfg.ml_minimo_resto = 0) =>
        \A r \in 1..Len(problema[1]) : problema[1][r].nombre \notin FamiliasDeResto

(* a result with a roll that takes all of its stock roll, and one with a roll
   that leaves exactly ml_minimo_resto *)
C15_Testigo ==
    /\ Devuelto
    /\ cfg.ml_minimo_resto > 0
    /\ \E n \in 1..Len(solucion[1].bobinas) :
        LET b == solucion[1].bobinas[n]
        IN  \/ b.metros_lineales * MlDen(b.desarrollo) = MlNum(b.desarrollo)
            \/ (b.metros_lineales + cfg.ml_minimo_resto) * MlDen(b.desarrollo)
                   = MlNum(b.desarrollo)

SinMlMinimos(peds) == [k \in 1..Len(peds) |-> [peds[k] EXCEPT !.ml_minimos = 0]]

(* the lower bounds that ml_minimos sets on the active rolls of an assignment *)
MinimosCumplidos(c, peds, cands, a) ==
    \A i \in 1..Len(cands) : \A k \in 1..Len(peds) :
        (/\ peds[k].ml_minimos > 0
         /\ peds[k].id \in DOMAIN cands[i].configuracion.cortes
         /\ a[i].y = 1)
            => a[i].ml * 100 >= peds[k].ml_minimos * (100 - c.margen_tolerancia_ml_pct)

(* C16: for every order with ml_minimos > 0, every roll of a non-empty result
   that contains the order has at least ml_minimos * (1 -
   margen_tolerancia_ml_pct / 100) linear metres; the relaxation is
   one-sided: ml_minimos takes away only the assignments with an active roll
   under that length, it sets no upper bound. *)
C16_MlMinimos ==
    /\ Devuelto =>
        \A n \in 1..Len(solucion[1].bobinas) : \A k \in 1..Len(pedidos) :
            (/\ pedidos[k].ml_minimos > 0
             /\ pedidos[k].id \in DOMAIN solucion[1].bobinas[n].cortes)
                => solucion[1].bobinas[n].metros_lineales * 100
                      >= pedidos[k].ml_minimos * (100 - cfg.margen_tolerancia_ml_pct)
    /\ pc = "modelado" =>
        FactiblesActuales
            = {a \in Factibles(cfg, desarrollos, SinMlMinimos(pedidos), bobinas_candidatas) :
                  MinimosCumplidos(cfg, pedidos, bobinas_candidatas, a)}

(* a returned roll longer than ml_minimos * (1 + tolerance) of an order it
   contains *)
C16_Testigo ==
    /\ Devuelto
    /\ \E n \in 1..Len(solucion[1].bobinas) : \E k \in 1..Len(pedidos) :
        /\ pedidos[k].ml_minimos > 0
        /\ pedidos[k].id \in DOMAIN solucion[1].bobinas[n].cortes
        /\ solucion[1].bobinas[n].metros_lineales * 100
              > pedidos[k].ml_minimos * (100 + cfg.margen_tolerancia_ml_pct)

(* C17: every roll of a non-empty result weighs, gross, between kg_min_bobina
   and kg_max_bobina, and a pattern that is not selected (y = 0) carries zero
   linear metres, its lower weight bound being relaxed to 0. *)
C17_VentanaDePeso ==
    /\ Devuelto =>
        /\ \A n \in 1..Len(solucion[1].bobinas) :
            /\ solucion[1].bobinas[n].kg_totales >= KgU(cfg.kg_min_bobina)
            /\ solucion[1].bobinas[n].kg_totales <= KgU(cfg.kg_max_bobina)
        /\ \A f \in resultado[1].dataframe :
            /\ f.KG_TOTALES_BOBINA >= KgU(cfg.kg_min_bobina)
            /\ f.KG_TOTALES_BOBINA <= KgU(cfg.kg_max_bobina)
    /\ (estado = "Optimal" /\ pc \in {"resuelto", "extraido", "fin", "excepcion"}) =>
        \A i \in 1..Len(valores) : valores[i].y = 0 => valores[i].ml = 0

(* with kg_min_bobina > 0, a result that leaves a pattern out and holds a
   roll that one metre less would take under kg_min_bobina *)
C17_Testigo ==
    /\ Devuelto
    /\ cfg.kg_min_bobina > 0
    /\ \E i \in 1..Len(valores) : valores[i].y = 0
    /\ \E n \in 1..Len(solucion[1].bobinas) :
        LET b == solucion[1].bobinas[n]
        IN  Peso(b.metros_lineales - 1, b.desarrollo.espesor, b.desarrollo.ancho)
                < KgU(cfg.kg_min_bobina)

SinDesarrolloCompatible(pedido) ==
    \A d \in 1..Len(DesarrollosDeEntrada) : ~Compatible(pedido, DesarrollosDeEntrada[d])

(* C18: an order that has no compatible stock roll (none with its thickness,
   alloy and temper and a width >= its own) raises no exception, appears in
   no generated pattern and, when its kg_solicitados * margen_cobertura > 0,
   makes optimizar return the empty list. *)
C18_PedidoSinDesarrollo ==
    \A k \in 1..Len(PedidosDeEntrada) :
        SinDesarrolloCompatible(PedidosDeEntrada[k]) =>
            /\ pc # "excepcion"
            /\ Generadas =>
                \A i \in 1..Len(bobinas_candidatas) :
                    PedidosDeEntrada[k].id
                        \notin DOMAIN bobinas_candidatas[i].configuracion.cortes
            /\ PedidosDeEntrada[k].kg_solicitados * cfg.margen_cobertura > 0 => SinResultado

(* the compatibility rule, as the claim words it *)
MismoMaterialYCabe(pedido, desarrollo) ==
    /\ pedido.espesor = desarrollo.espesor
    /\ pedido.aleacion = desarrollo.aleacion
    /\ pedido.estado = desarrollo.estado
    /\ pedido.ancho <= desarrollo.ancho

SinPedidoCompatible(desarrollo) ==
    \A k \in 1..Len(pedidos) : ~MismoMaterialYCabe(pedidos[k], desarrollo)

FamiliasPorDesarrollo == {"Material_Disp", "ML_Max", "ML_Resto_Min", "ML_Usar_Todo"}

(* C19: every order that appears in a candidate pattern of a stock roll is
   compatible with it (same thickness, alloy and temper, width <= the stock
   roll's); a stock roll with no compatible order contributes no candidate
   and no constraint: the model is the one built without that stock roll. *)
C19_Compatibilidad ==
    /\ Generadas =>
        /\ \A i \in 1..Len(bobinas_candidatas) : \A k \in 1..Len(pedidos) :
               pedidos[k].id \in DOMAIN bobinas_candidatas[i].configuracion.cortes
                   => MismoMaterialYCabe(pedidos[k], bobinas_candidatas[i].desarrollo)
        /\ \A d \in 1..Len(desarrollos) :
               SinPedidoCompatible(desarrollos[d]) =>
                   \A i \in 1..Len(bobinas_candidatas) :
                       bobinas_candidatas[i].desarrollo.id # desarrollos[d].id
    /\ problema # <<>> =>
        \A d \in 1..Len(desarrollos) :
            SinPedidoCompatible(desarrollos[d]) =>
                \A r \in 1..Len(problema[1]) :
                    ~ /\ problema[1][r].nombre \in FamiliasPorDesarrollo
                      /\ problema[1][r].clave = <<desarrollos[d].id>>
    /\ pc = "modelado" =>
        FactiblesActuales
            = Factibles(cfg,
                        SelectSeq(desarrollos, LAMBDA des : ~SinPedidoCompatible(des)),
                        pedidos, bobinas_candidatas)

(* a result returned while a stock roll shorter than ml_minimo_resto has no
   compatible order *)
C19_Testigo ==
    /\ Devuelto
    /\ cfg.ml_minimo_resto > 0
    /\ \E d \in 1..Len(desarrollos) :
        /\ SinPedidoCompatible(desarrollos[d])
        /\ ~BajoDisponible(desarrollos[d], 0, cfg.ml_minimo_resto)

CandidatasDeEntrada ==
    GenerarBobinasCandidatas(cfg, DesarrollosDeEntrada, PedidosDeEntrada)

(* what a first call on a new object may return for the inputs at hand *)
ResultadosDeEntrada ==
    {<<>>} \cup
    {FormatearResultado(df_pedidos,
                        ExtraerSolucion(cfg, PedidosDeEntrada, CandidatasDeEntrada, a)) :
        a \in {b \in Factibles(cfg, DesarrollosDeEntrada, PedidosDeEntrada,
                                CandidatasDeEntrada) :
                  ~FormatearLanza(df_pedidos,
                                  ExtraerSolucion(cfg, PedidosDeEntrada,
                                                  CandidatasDeEntrada, b))}}

SoloDeLaLlamada ==
    /\ pc # "inicio" =>
        /\ desarrollos = DesarrollosDeEntrada
        /\ pedidos = PedidosDeEntrada
    /\ Generadas => bobinas_candidatas = CandidatasDeEntrada
    /\ pc \in {"modelado", "resuelto", "extraido", "fin", "excepcion"} =>
        problema = <<RestriccionesModelo(cfg, DesarrollosDeEntrada, PedidosDeEntrada,
                                        CandidatasDeEntrada)>>
    /\ (pc = "resuelto" /\ estado = "Optimal") =>
        valores \in Factibles(cfg, DesarrollosDeEntrada, PedidosDeEntrada,
                              CandidatasDeEntrada)
    /\ pc = "fin" => resultado \in ResultadosDeEntrada

(* C20: no state carries over between invocations.  In any sequence of calls
   of optimizar_ilp, or of optimizar on one reused object, what a call loads,
   generates, builds and may return is fixed by that call's tables and
   parameters alone, whatever the earlier calls left in the object; and the
   tables df_desarrollos and df_pedidos are left unchanged by the call. *)
C20_SinEstadoEntreLlamadas ==
    /\ []SoloDeLaLlamada
    /\ [][pc' # "inicio" => UNCHANGED <<df_desarrollos, df_pedidos>>]_vars

(* a call on a reused object answered with [] while the object still holds
   the lists and the solution of earlier calls on other tables *)
C20_Testigo ==
    /\ pc = "fin"
    /\ resultado = <<>>
    /\ solucion # <<>>
    /\ \E n \in 1..Len(solucion[1].bobinas) :
           solucion[1].bobinas[n].desarrollo # desarrollos[1]

(* C21: for every accepted margen_cobertura, in a non-empty result every
   order whose allocated kg reach kg_solicitados * margen_cobertura is
   reported as covered, and when all orders reach it the result is flagged
   valid. *)
AlcanzaElMinimo(pedido) ==
    KgEnSolucion(solucion[1], pedido.id) >= KgMargen(pedido, cfg.margen_cobertura)

C21_InformeMasLaxo ==
    Devuelto =>
        /\ \A k \in 1..Len(pedidos) :
               AlcanzaElMinimo(pedidos[k]) => resultado[1].cobertura[pedidos[k].id].cubierto
        /\ (\A k \in 1..Len(pedidos) : AlcanzaElMinimo(pedidos[k])) => resultado[1].es_valido

(* C22: in one call of optimizar the phases run in the order load, generate,
   build, solve, extract, each at most once: every step moves to a later
   phase, the extraction starts only from a solve that ended Optimal, the
   call never ends without one solve, and after a failed solve nothing is
   run again. *)
Fase(p) ==
    CASE p = "inicio"   -> 0
      [] p = "cargado"  -> 1
      [] p = "generado" -> 2
      [] p = "modelado" -> 3
      [] p = "resuelto" -> 4
      [] p = "extraido" -> 5
      [] OTHER          -> 6

C22_FasesEnOrden ==
    /\ [][/\ Fase(pc') > Fase(pc)
          /\ Fase(pc') <= 5 => Fase(pc') = Fase(pc) + 1
          /\ pc' = "extraido" => (pc = "resuelto" /\ estado = "Optimal")
          /\ (pc = "resuelto" /\ estado # "Optimal") => Terminada']_vars
    /\ [](Terminada => estado # None)
    /\ [](Fase(pc) < 4 => (estado = None /\ solucion = <<>>))

(* a call that ended after a solve that found no solution *)
C22_Testigo ==
    /\ pc = "fin"
    /\ estado \in {"Infeasible", "Not Solved"}
    /\ solucion = <<>>
    /\ resultado = <<>>

(* C23: in every model built, the bound M = 20000 on a candidate's ml is at
   least the largest ml that Peso_Max and Material_Disp admit for it,
   min(kg_max_bobina, kg_disponibles) / (2.73 * espesor * ancho / 1000). *)
MlAdmitidos(c, cand) ==
    Min(KgU(c.kg_max_bobina), KgU(cand.desarrollo.kg_disponibles))
        \div MlDen(cand.desarrollo)

C23_CotaSuficiente ==
    pc = "modelado" =>
        \A i \in 1..Len(bobinas_candidatas) :
            /\ \E r \in 1..Len(problema[1]) :
                   problema[1][r] = Restriccion("Activacion", <<bobinas_candidatas[i].id>>)
            /\ MlAdmitidos(cfg, bobinas_candidatas[i]) <= M

(* C24: buscar_parametros_optimos returns as 'mejor' a valid trial (minimum
   order coverage >= 85%) whose score num_bobinas * 10000 + desperdicio_total
   is the least among the valid trials of the search, the earliest of them on
   ties; it returns None when no trial is valid. *)
PruebasValidas == {i \in 1..Len(resultados) : resultados[i].valido}

PrimeraDeMenorPuntuacion ==
    CHOOSE i \in PruebasValidas :
        \A j \in PruebasValidas :
            \/ resultados[i].puntuacion < resultados[j].puntuacion
            \/ resultados[i].puntuacion = resultados[j].puntuacion /\ i <= j

C24_MejorPrueba ==
    pc = "devuelto" =>
        /\ \A i \in 1..Len(resultados) :
               /\ resultados[i].valido <=> resultados[i].cobertura_min >= 8500
               /\ resultados[i].puntuacion
                      = resultados[i].num_bobinas * 10000 + resultados[i].desperdicio_total
        /\ IF PruebasValidas = {}
           THEN retorno = <<>>
           ELSE /\ retorno # <<>>
                /\ retorno[1].mejor = resultados[PrimeraDeMenorPuntuacion]
                /\ retorno[1].mejor.cobertura_min >= 8500

(* a search that returned a best trial although a trial under 85% coverage
   had a lower score *)
C24_Testigo ==
    /\ pc = "devuelto"
    /\ retorno # <<>>
    /\ \E i \in 1..Len(resultados) :
           /\ ~resultados[i].valido
           /\ resultados[i].puntuacion < retorno[1].mejor.puntuacion

(* C25: a trial whose engine call returns the empty list or raises is
   skipped: the best trial and the recorded trials stay as they were, the
   loop goes on, and the search returns only after every combination has
   been taken. *)
PruebaFallida == Terminada /\ (pc = "excepcion" \/ resultado = <<>>)

C25_PruebaOmitida ==
    /\ [][PruebaFallida =>
            /\ pc' = "buscar"
            /\ UNCHANGED <<resultados, mejor_resultado, mejor_puntuacion, idx,
                           combinaciones>>]_vars
    /\ [](pc = "devuelto" => idx = Len(combinaciones))
    /\ [](Len(resultados) <= idx)

(* a search that went on after a trial that raised, with a best trial found
   before it *)
C25_Testigo ==
    /\ pc = "excepcion"
    /\ idx < Len(combinaciones)
    /\ mejor_resultado # <<>>

(* C26: the set of patterns generated for a stock roll, as cut mappings
   order id -> cut count, is the same for every permutation of the order
   list. *)
Patrones(cands) ==
    {<<cands[i].desarrollo.id, cands[i].configuracion.cortes>> : i \in 1..Len(cands)}

C26_OrdenDeLosPedidos ==
    pc = "generado" =>
        \A p \in Permutaciones(Len(pedidos)) :
            Patrones(GenerarBobinasCandidatas(cfg, desarrollos,
                                              [i \in 1..Len(pedidos) |-> pedidos[p[i]]]))
                = Patrones(bobinas_candidatas)

(* C27: with ml_minimo_resto > 0, for every candidate whose stock roll has
   kg_disponibles > 0, y = 0 and ml = 0 satisfy ML_Resto_Min_Bobina and
   ML_Usar_Todo_Bobina for some value of the candidate's binary: the per-roll
   remainder rule does not force a pattern to be produced. *)
C27_RestoNoFuerzaPatron ==
    (pc = "modelado" /\ cfg.ml_minimo_resto > 0) =>
        \A i \in 1..Len(bobinas_candidatas) :
            bobinas_candidatas[i].desarrollo.kg_disponibles > 0 =>
                RestoPorBobina(cfg, bobinas_candidatas[i], [y |-> 0, ml |-> 0])

(* C28: every pattern generated by the block for k orders has a cut mapping
   of exactly k entries, and the used width of every pattern is the sum over
   its mapping of cut count times the width of the order with that id, also
   when two compatible orders carry the same id. *)
Bloque(c, desarrollo, peds, k) ==
    CASE k = 1 -> Configuraciones1(c, desarrollo, peds)
      [] k = 2 -> Configuraciones2(c, desarrollo, peds)
      [] k = 3 -> Configuraciones3(c, desarrollo, peds)
      [] k = 4 -> Configuraciones4(c, desarrollo, peds)
      [] k = 5 -> Configuraciones5(c, desarrollo, peds)
      [] OTHER -> Configuraciones6(c, desarrollo, peds)

(* next(p for p in self.pedidos if p['id'] == pedido_id) *)
PedidoConId(peds, pedido_id) ==
    peds[CHOOSE j \in 1..Len(peds) :
            /\ peds[j].id = pedido_id
            /\ \A l \in 1..(j - 1) : peds[l].id # pedido_id]

RECURSIVE AnchoDelMapa(_, _, _)
AnchoDelMapa(peds, cortes, claves) ==
    IF claves = {} THEN 0
    ELSE LET clave == CHOOSE x \in claves : TRUE
         IN  cortes[clave] * PedidoConId(peds, clave).ancho
                 + AnchoDelMapa(peds, cortes, claves \ {clave})

PatronCoherente(peds, configuracion) ==
    configuracion.ancho_usado
        = AnchoDelMapa(peds, configuracion.cortes, DOMAIN configuracion.cortes)

C28_MapaYAnchoUsado ==
    pc = "generado" =>
        /\ \A d \in 1..Len(desarrollos) :
            LET compatibles == PedidosCompatibles(desarrollos[d], pedidos)
            IN  \A k \in 1..6 :
                    LET bloque == Bloque(cfg, desarrollos[d], compatibles, k)
                    IN  \A j \in 1..Len(bloque) :
                            /\ Cardinality(DOMAIN bloque[j].cortes) = k
                            /\ PatronCoherente(pedidos, bloque[j])
        /\ \A i \in 1..Len(bobinas_candidatas) :
            PatronCoherente(pedidos, bobinas_candidatas[i].configuracion)

(* C29: in _generar_solucion_inicial the remaining kg of every stock roll
   stay >= 0 whatever rolls are accepted, and the loop makes at most
   max_intentos iterations. *)
C29_KgRestantes ==
    /\ \A i \in 1..Len(desarrollos_disponibles) :
        desarrollos_disponibles[i].kg_disponibles >= 0
    /\ intento <= cfg.max_intentos

(* C30: whenever the loop has read the combinations cached for the type of
   its stock roll, they are the combinations _generar_combinaciones_corte
   produces from all the orders of that type, and none of the combinations
   of the orders that still have pending kg is missing. *)
PedidosDelTipo(desarrollo, peds) ==
    SelectSeq(peds, LAMBDA p : CompatibleConTipo(p, desarrollo))

Contenido(combs) == {combs[j] : j \in 1..Len(combs)}

CacheLeida == pc = "bucle" /\ desarrollo_actual # 0 /\ pedidos_compatibles # <<>>

NingunaPendienteFalta ==
    CacheLeida =>
        LET desarrollo == desarrollos_disponibles[desarrollo_actual]
            leidas     == combinaciones_por_desarrollo[ClaveDesarrollo(desarrollo)]
        IN  Contenido(generar_combinaciones_corte(cfg, desarrollo, pedidos_compatibles))
                \subseteq Contenido(leidas)

C30_CacheCompleta ==
    /\ CacheLeida =>
           LET desarrollo == desarrollos_disponibles[desarrollo_actual]
           IN  combinaciones_por_desarrollo[ClaveDesarrollo(desarrollo)]
                   = generar_combinaciones_corte(cfg, desarrollo,
                                                 PedidosDelTipo(desarrollo, pedidos))
    /\ NingunaPendienteFalta

====
